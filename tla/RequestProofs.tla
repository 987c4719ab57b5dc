--------------------------- MODULE RequestProofs ---------------------------
(* Proofs, for any inputs, workspaces and patches, and for any rankings,     *)
(* searches and columns, about what a reader asks for: the query of a panel  *)
(* stays of the target it names (lib/query.mjs), and the table of runners    *)
(* shows the page its fields say (public/app.js, lib/instance.mjs,           *)
(* shared/sort.mjs).                                                         *)
EXTENDS Query, RunnerTable, FiniteSetTheorems, SequenceTheorems, WellFoundedInduction, TLAPS

---------------------------------------------------------------------------
(* Query. *)
Hosts == Segments \union {""}

---------------------------------------------------------------------------
(* A target: its scope, its host, and a path of as many segments as the      *)
(* scope has. What a key says of it is the target itself.                    *)
IsTarget(t) ==
    /\ t = [scope |-> t.scope, host |-> t.host, path |-> t.path]
    /\ t.scope \in {"org", "repo"} /\ t.host \in Segments
    /\ t.path \in Seq(Segments) /\ Len(t.path) = Parts(t.scope)
TargetOf(q) == [scope |-> ScopeOf(q), host |-> QueryHost(q), path |-> SplitOf(q).path]

Shown(t) == IF t.host = DefaultHost THEN t.path ELSE <<t.host>> \o t.path
KeyOf(t) == <<t.scope, Shown(t)>>
OwnerOf(t) == <<t.host, SubSeq(t.path, 1, 1)>>

IsQuery(q) ==
    /\ q = [f \in Fields |-> q[f]] /\ DOMAIN q = Fields
    /\ q.repo \in Seq(Segments) /\ q.owner \in Seq(Segments) /\ q.host \in Hosts

LEMMA KeysOfTargets ==
    ASSUME NEW q
    PROVE  TargetKey(q) = KeyOf(TargetOf(q)) /\ OwnerKey(q) = OwnerOf(TargetOf(q))
BY DEF TargetKey, KeyOf, TargetOf, FormatQuery, Shown, OwnerKey, OwnerOf

LEMMA OnePrefixed ==
    ASSUME NEW h \in Segments, NEW s \in Seq(Segments)
    PROVE  /\ <<h>> \o s \in Seq(Segments) /\ Len(<<h>> \o s) = Len(s) + 1
           /\ (<<h>> \o s)[1] = h /\ \A i \in 1 .. Len(s) : (<<h>> \o s)[i + 1] = s[i]
<1>1. <<h>> \in Seq(Segments) /\ Len(<<h>>) = 1 /\ <<h>>[1] = h
  OBVIOUS
<1>2. /\ <<h>> \o s \in Seq(Segments) /\ Len(<<h>> \o s) = Len(<<h>>) + Len(s)
      /\ \A i \in 1 .. Len(<<h>>) + Len(s) :
            (<<h>> \o s)[i] = IF i <= Len(<<h>>) THEN <<h>>[i] ELSE s[i - Len(<<h>>)]
  BY <1>1, ConcatProperties
<1>3. Len(s) \in Nat
  BY LenProperties
<1> QED BY <1>1, <1>2, <1>3

(* No two targets share a key: a host that is shown makes the path longer.   *)
LEMMA KeysDiffer ==
    ASSUME NEW t, NEW u, IsTarget(t), IsTarget(u), KeyOf(t) = KeyOf(u)
    PROVE  t = u
<1>1. t.scope = u.scope /\ Shown(t) = Shown(u)
  BY DEF KeyOf
<1>2. Len(t.path) = Len(u.path) /\ Len(t.path) \in Nat
  BY <1>1 DEF IsTarget, Parts
<1> DEFINE T == <<t.host>> \o t.path
           U == <<u.host>> \o u.path
<1>3. /\ T \in Seq(Segments) /\ Len(T) = Len(t.path) + 1 /\ T[1] = t.host
      /\ \A i \in 1 .. Len(t.path) : T[i + 1] = t.path[i]
  BY OnePrefixed DEF IsTarget
<1>4. /\ U \in Seq(Segments) /\ Len(U) = Len(u.path) + 1 /\ U[1] = u.host
      /\ \A i \in 1 .. Len(u.path) : U[i + 1] = u.path[i]
  BY OnePrefixed DEF IsTarget
<1>5. /\ Shown(t) = IF t.host = DefaultHost THEN t.path ELSE T
      /\ Shown(u) = IF u.host = DefaultHost THEN u.path ELSE U
  BY DEF Shown
<1> HIDE DEF T, U
<1>6. t.host = DefaultHost <=> u.host = DefaultHost
  <2>1. Len(T) # Len(u.path) /\ Len(U) # Len(t.path)
    BY <1>2, <1>3, <1>4
  <2> QED BY <1>1, <1>5, <2>1
<1>7. t.host = u.host
  BY <1>1, <1>3, <1>4, <1>5, <1>6
<1>8. \A i \in 1 .. Len(t.path) : t.path[i] = u.path[i]
  <2>1. CASE t.host = DefaultHost
    BY <1>1, <1>5, <1>6, <2>1
  <2>2. CASE t.host # DefaultHost
    <3>1. T = U
      BY <1>1, <1>5, <1>6, <2>2
    <3> QED BY <1>2, <1>3, <1>4, <3>1
  <2> QED BY <2>1, <2>2
<1>9. t.path = u.path
  <2>1. t.path \in Seq(Segments) /\ u.path \in Seq(Segments)
    BY DEF IsTarget
  <2> QED BY <1>2, <1>8, <2>1, SeqEqual
<1> QED BY <1>1, <1>7, <1>9 DEF IsTarget

---------------------------------------------------------------------------
(* A query that validates, in its canonical form.                            *)
LEMMA FieldsHave ==
    /\ {"repo", "owner", "host", "days", "patterns", "runnerType", "filter", "labels", "groupBy", "jobKind",
        "rowBudget", "jobConcurrency"} \subseteq Fields
    /\ {"repo", "owner", "host", "days", "patterns", "runnerType"} = DatasetFields
    /\ PersistedFields \subseteq Fields
    /\ PersistedFields \cap {"repo", "owner", "host", "filter"} = {} /\ "patterns" \in PersistedFields
BY DEF Fields, CollectionFields, DatasetFields, TargetFields, ProjectionFields, RowFields, PersistedFields

LEMMA SplitIs ==
    ASSUME NEW s \in Seq(Segments), NEW n \in {1, 2}
    PROVE  /\ SplitHost(s, n).path \in Seq(Segments) /\ SplitHost(s, n).host \in Hosts
           /\ Len(s) = n => SplitHost(s, n).host = "" /\ SplitHost(s, n).path = s
<1>1. CASE Len(s) = n + 1
  <2>1. s # <<>> /\ Len(s) # n
    BY <1>1
  <2>2. Head(s) \in Segments /\ Tail(s) \in Seq(Segments)
    BY <2>1, HeadTailProperties
  <2> QED BY <1>1, <2>1, <2>2 DEF SplitHost, Hosts
<1>2. CASE Len(s) # n + 1
  BY <1>2 DEF SplitHost, Hosts
<1> QED BY <1>1, <1>2

LEMMA ValidTargets ==
    ASSUME NEW q, IsQuery(q), Valid(q)
    PROVE  /\ IsTarget(TargetOf(q))
           /\ SplitOf(q).host # "" => SplitOf(q).host = HostOr(q.host, SplitOf(q).host)
<1>1. ScopeOf(q) \in {"org", "repo"} /\ Parts(ScopeOf(q)) \in {1, 2}
  BY DEF ScopeOf, Parts
<1>2. Selector(q) \in Seq(Segments)
  BY <1>1 DEF Selector, SelectorField, IsQuery
<1>3. SplitOf(q).path \in Seq(Segments) /\ SplitOf(q).host \in Hosts
  BY <1>1, <1>2, SplitIs DEF SplitOf
<1>4. QueryHost(q) \in Segments
  <2>1. q.host \in Hosts
    BY DEF IsQuery
  <2> QED BY <1>3, <2>1, QueryAssumption DEF QueryHost, HostOr, Hosts
<1>5. Len(SplitOf(q).path) = Parts(ScopeOf(q))
  BY DEF Valid
<1>6. IsTarget(TargetOf(q))
  BY <1>1, <1>3, <1>4, <1>5 DEF IsTarget, TargetOf
<1> QED BY <1>6 DEF Valid

(* A query with its target spelt out once.                                   *)
IsCanonical(q) ==
    /\ q.repo = <<>> \/ q.owner = <<>>
    /\ SplitOf(q).host = "" /\ SplitOf(q).path = Selector(q) /\ Len(Selector(q)) = Parts(ScopeOf(q))
    /\ q.host # DefaultHost \/ q.host = ""

LEMMA CanonicalStays ==
    ASSUME NEW q, IsQuery(q), IsCanonical(q)
    PROVE  Valid(q) /\ Canonical(q) = q
<1>1. Selector(q) # <<>>
  <2>1. Len(Selector(q)) = Parts(ScopeOf(q))
    BY DEF IsCanonical
  <2> QED BY <2>1 DEF Parts
<1>2. Valid(q)
  BY <1>1 DEF IsCanonical, Valid
<1>3. SplitOf(q).host = "" /\ SplitOf(q).path = Selector(q)
  BY DEF IsCanonical
<1>4. HostOr(SplitOf(q).host, q.host) = q.host
  BY <1>3 DEF HostOr
<1>5. \A f \in Fields : Canonical(q)[f] = q[f]
  BY <1>3, <1>4 DEF Canonical, IsCanonical, Selector
<1>6. Canonical(q) = [f \in Fields |-> Canonical(q)[f]]
  BY DEF Canonical
<1>7. Canonical(q) = q
  BY <1>5, <1>6 DEF IsQuery
<1> QED BY <1>2, <1>7

LEMMA CanonicalIs ==
    ASSUME NEW q, IsQuery(q), Valid(q)
    PROVE  /\ IsQuery(Canonical(q)) /\ IsCanonical(Canonical(q)) /\ TargetOf(Canonical(q)) = TargetOf(q)
           /\ \A f \in Fields \ {"repo", "owner", "host"} : Canonical(q)[f] = q[f]
<1> DEFINE c == Canonical(q)
           host == HostOr(SplitOf(q).host, q.host)
           path == SplitOf(q).path
<1>1. /\ c = [f \in Fields |-> c[f]] /\ DOMAIN c = Fields
      /\ c.host = IF host = DefaultHost THEN "" ELSE host
      /\ c[SelectorField(q)] = path
      /\ \A f \in Fields \ {"host", SelectorField(q)} : c[f] = q[f]
  BY FieldsHave DEF Canonical, SelectorField
<1>2. /\ IsTarget(TargetOf(q)) /\ path \in Seq(Segments) /\ Len(path) = Parts(ScopeOf(q))
      /\ QueryHost(q) \in Segments
  BY ValidTargets DEF IsTarget, TargetOf
<1>3. /\ SelectorField(q) \in {"repo", "owner"} /\ ScopeOf(q) \in {"org", "repo"}
      /\ SelectorField(q) = IF ScopeOf(q) = "org" THEN "owner" ELSE "repo"
  BY DEF SelectorField, ScopeOf
<1>4. q.repo \in Seq(Segments) /\ q.owner \in Seq(Segments) /\ q.host \in Hosts
  BY DEF IsQuery
<1>5. SplitOf(q).host \in Hosts
  BY <1>3, <1>4, SplitIs DEF SplitOf, Selector, Parts
<1>6. host \in Hosts
  BY <1>4, <1>5 DEF HostOr
<1>7. path # <<>>
  BY <1>2, <1>3 DEF Parts
<1> HIDE DEF c, host, path
<1>8. c.repo \in Seq(Segments) /\ c.owner \in Seq(Segments) /\ c.host \in Hosts
  BY <1>1, <1>2, <1>3, <1>4, <1>6, FieldsHave DEF Hosts
<1>9. IsQuery(c)
  BY <1>1, <1>8 DEF IsQuery
<1>10. ScopeOf(c) = ScopeOf(q) /\ (c.repo = <<>> \/ c.owner = <<>>)
  <2>1. CASE ScopeOf(q) = "org"
    <3>1. c.owner = path /\ c.repo = <<>>
      BY <1>1, <1>3, <2>1, FieldsHave DEF ScopeOf
    <3> QED BY <1>7, <2>1, <3>1 DEF ScopeOf
  <2>2. CASE ScopeOf(q) = "repo"
    <3>1. c.repo = path /\ c.owner = q.owner
      BY <1>1, <1>3, <2>2, FieldsHave
    <3>2. q.owner = <<>>
      BY <1>3, <2>2 DEF Valid, ScopeOf, Selector
    <3> QED BY <1>7, <2>2, <3>1, <3>2 DEF ScopeOf
  <2> QED BY <1>3, <2>1, <2>2
<1>11. Selector(c) = path
  BY <1>1, <1>10 DEF Selector, SelectorField
<1>12. SplitOf(c).host = "" /\ SplitOf(c).path = path
  BY <1>2, <1>3, <1>10, <1>11, SplitIs DEF SplitOf, Parts
<1>13. IsCanonical(c)
  BY <1>1, <1>2, <1>10, <1>11, <1>12 DEF IsCanonical
<1>14. QueryHost(c) = QueryHost(q)
  <2>1. QueryHost(c) = HostOr(c.host, DefaultHost)
    BY <1>12 DEF QueryHost, HostOr
  <2>2. HostOr(c.host, DefaultHost) = HostOr(host, DefaultHost)
    BY <1>1 DEF HostOr
  <2>3. QueryHost(q) = HostOr(host, DefaultHost)
    BY ValidTargets DEF QueryHost, HostOr, host
  <2> QED BY <2>1, <2>2, <2>3
<1>15. TargetOf(c) = TargetOf(q)
  BY <1>10, <1>12, <1>14 DEF TargetOf, path
<1>16. \A f \in Fields \ {"repo", "owner", "host"} : c[f] = q[f]
  BY <1>1, <1>3
<1> QED BY <1>9, <1>13, <1>15, <1>16 DEF c

---------------------------------------------------------------------------
(* What a patch makes of a query.                                            *)
LEMMA StatedIs ==
    ASSUME NEW in
    PROVE  /\ "repo" \in Stated(in) <=> "repo" \in DOMAIN in /\ in["repo"] # <<>>
           /\ "owner" \in Stated(in) <=> "owner" \in DOMAIN in /\ in["owner"] # <<>>
           /\ \A f : f \notin {"repo", "owner"} => (f \in Stated(in) <=> f \in DOMAIN in)
BY DEF Stated

LEMMA RetargetedIs ==
    ASSUME NEW q, IsQuery(q), NEW in, IsNaming(in)
    PROVE  LET r == Retargeted(q, in)
           IN  /\ IsQuery(r)
               /\ r.repo = IF "repo" \in Stated(in) THEN in["repo"]
                           ELSE IF "owner" \in Stated(in) THEN <<>> ELSE q.repo
               /\ r.owner = IF "owner" \in Stated(in) THEN in["owner"]
                            ELSE IF "repo" \in Stated(in) THEN <<>> ELSE q.owner
               /\ r.host = IF "host" \in DOMAIN in THEN in["host"]
                           ELSE IF {"repo", "owner"} \cap Stated(in) # {} THEN "" ELSE q.host
               /\ \A f \in Fields \ TargetFields : r[f] = IF f \in DOMAIN in THEN in[f] ELSE q[f]
<1> DEFINE r == Retargeted(q, in)
<1>1. r = [f \in Fields |-> r[f]] /\ DOMAIN r = Fields
  BY DEF Retargeted
<1>2. r.repo = IF "repo" \in Stated(in) THEN in["repo"]
               ELSE IF "owner" \in Stated(in) THEN <<>> ELSE q.repo
  BY FieldsHave DEF Retargeted
<1>3. r.owner = IF "owner" \in Stated(in) THEN in["owner"]
                ELSE IF "repo" \in Stated(in) THEN <<>> ELSE q.owner
  BY FieldsHave DEF Retargeted
<1>4. r.host = IF "host" \in DOMAIN in THEN in["host"]
               ELSE IF {"repo", "owner"} \cap Stated(in) # {} THEN "" ELSE q.host
  BY FieldsHave, StatedIs DEF Retargeted
<1>5. \A f \in Fields \ TargetFields : r[f] = IF f \in DOMAIN in THEN in[f] ELSE q[f]
  BY StatedIs DEF Retargeted, TargetFields
<1> HIDE DEF r
<1>6. /\ "repo" \in Stated(in) => in["repo"] \in Seq(Segments)
      /\ "owner" \in Stated(in) => in["owner"] \in Seq(Segments)
      /\ "host" \in DOMAIN in => in["host"] \in Hosts
  BY StatedIs DEF IsNaming, Hosts
<1>7. <<>> \in Seq(Segments) /\ "" \in Hosts
  BY DEF Hosts
<1>8. IsQuery(r)
  BY <1>1, <1>2, <1>3, <1>4, <1>6, <1>7 DEF IsQuery
<1> QED BY <1>2, <1>3, <1>4, <1>5, <1>8 DEF r

(* The target of a query depends on three of its fields.                     *)
LEMMA SameTargets ==
    ASSUME NEW q, NEW p, p.repo = q.repo, p.owner = q.owner, p.host = q.host
    PROVE  /\ ScopeOf(p) = ScopeOf(q) /\ Selector(p) = Selector(q) /\ SplitOf(p) = SplitOf(q)
           /\ TargetOf(p) = TargetOf(q) /\ (Valid(p) <=> Valid(q)) /\ OwnerKey(p) = OwnerKey(q)
           /\ TargetKey(p) = TargetKey(q)
<1>1. ScopeOf(p) = ScopeOf(q)
  BY DEF ScopeOf
<1>2. Selector(p) = Selector(q)
  BY <1>1 DEF Selector, SelectorField, ScopeOf
<1>3. SplitOf(p) = SplitOf(q)
  BY <1>1, <1>2 DEF SplitOf
<1>4. QueryHost(p) = QueryHost(q)
  BY <1>3 DEF QueryHost
<1>5. TargetOf(p) = TargetOf(q)
  BY <1>1, <1>3, <1>4 DEF TargetOf
<1>6. Valid(p) <=> Valid(q)
  BY <1>1, <1>2, <1>3 DEF Valid
<1> QED BY <1>1, <1>2, <1>3, <1>5, <1>6, KeysOfTargets

LEMMA PatchedIs ==
    ASSUME NEW q, IsQuery(q), NEW in, IsNaming(in)
    PROVE  LET p == Patched(q, in)
               r == Retargeted(q, in)
           IN  /\ IsQuery(p) /\ p.repo = r.repo /\ p.owner = r.owner /\ p.host = r.host
               /\ p.patterns = IF "patterns" \in DOMAIN in THEN in["patterns"]
                               ELSE IF OwnerKey(p) # OwnerKey(q) THEN 0 ELSE q.patterns
               /\ p.filter = IF "filter" \in DOMAIN in THEN in["filter"]
                             ELSE IF DatasetQueryId(p) # DatasetQueryId(q) THEN 0 ELSE q.filter
<1> DEFINE r == Retargeted(q, in)
           next == PatternsKept(q, r, in)
           p == FilterKept(q, next, in)
<1>1. IsQuery(r) /\ r.patterns = (IF "patterns" \in DOMAIN in THEN in["patterns"] ELSE q.patterns)
          /\ r.filter = (IF "filter" \in DOMAIN in THEN in["filter"] ELSE q.filter)
  <2>1. "patterns" \in Fields \ TargetFields /\ "filter" \in Fields \ TargetFields
    BY FieldsHave DEF TargetFields
  <2> QED BY <2>1, RetargetedIs
<1> HIDE DEF r
<1>2. /\ IsQuery(next) /\ next.repo = r.repo /\ next.owner = r.owner /\ next.host = r.host
      /\ next.patterns = (IF OwnerKey(r) # OwnerKey(q) /\ "patterns" \notin DOMAIN in THEN 0 ELSE r.patterns)
      /\ next.filter = r.filter
  BY <1>1, FieldsHave DEF PatternsKept, IsQuery
<1> HIDE DEF next
<1>3. /\ IsQuery(p) /\ p.repo = next.repo /\ p.owner = next.owner /\ p.host = next.host
      /\ p.filter = (IF DatasetQueryId(next) # DatasetQueryId(q) /\ "filter" \notin DOMAIN in THEN 0 ELSE next.filter)
      /\ p.patterns = next.patterns
      /\ \A f \in Fields \ {"filter"} : p[f] = next[f]
  BY <1>2, FieldsHave DEF FilterKept, IsQuery
<1>4. p = Patched(q, in)
  BY DEF Patched, next, r, p
<1> HIDE DEF p
<1>5. DatasetQueryId(p) = DatasetQueryId(next)
  <2>1. \A f \in DatasetFields : p[f] = next[f]
    BY <1>3, FieldsHave
  <2> QED BY <2>1 DEF DatasetQueryId, Pick
<1>6. OwnerKey(p) = OwnerKey(r)
  BY <1>2, <1>3, SameTargets
<1>7. p.patterns = IF "patterns" \in DOMAIN in THEN in["patterns"]
                   ELSE IF OwnerKey(p) # OwnerKey(q) THEN 0 ELSE q.patterns
  BY <1>1, <1>2, <1>3, <1>6
<1>8. p.filter = IF "filter" \in DOMAIN in THEN in["filter"]
                 ELSE IF DatasetQueryId(p) # DatasetQueryId(q) THEN 0 ELSE q.filter
  BY <1>1, <1>2, <1>3, <1>5
<1> QED BY <1>2, <1>3, <1>4, <1>7, <1>8 DEF r

(* The target last named, as a patch of a canonical query names it.          *)
LEMMA ValidHosts ==
    ASSUME NEW q, IsQuery(q), Valid(q)
    PROVE  QueryHost(q) = HostOr(SplitOf(q).host, HostOr(q.host, DefaultHost))
<1>1. SplitOf(q).host # "" => q.host = "" \/ q.host = SplitOf(q).host
  BY ValidTargets DEF HostOr
<1> QED BY <1>1 DEF QueryHost, HostOr

LEMMA NamedIs ==
    ASSUME NEW q, IsQuery(q), IsCanonical(q), NEW in, IsNaming(in), NEW p, p = Patched(q, in), Valid(p)
    PROVE  TargetOf(p) = TargetNamed(in, HostIn(in), TargetOf(q))
<1> DEFINE host == HostIn(in)
<1>1. IsQuery(p) /\ QueryHost(p) = HostOr(SplitOf(p).host, HostOr(p.host, DefaultHost))
  BY PatchedIs, ValidHosts
<1>2. /\ p.repo = IF "repo" \in Stated(in) THEN in["repo"]
                  ELSE IF "owner" \in Stated(in) THEN <<>> ELSE q.repo
      /\ p.owner = IF "owner" \in Stated(in) THEN in["owner"]
                   ELSE IF "repo" \in Stated(in) THEN <<>> ELSE q.owner
      /\ p.host = IF "host" \in DOMAIN in THEN in["host"]
                  ELSE IF {"repo", "owner"} \cap Stated(in) # {} THEN "" ELSE q.host
  <2> DEFINE r == Retargeted(q, in)
  <2>1. p.repo = r.repo /\ p.owner = r.owner /\ p.host = r.host
    BY PatchedIs
  <2>2. /\ r.repo = IF "repo" \in Stated(in) THEN in["repo"]
                    ELSE IF "owner" \in Stated(in) THEN <<>> ELSE q.repo
        /\ r.owner = IF "owner" \in Stated(in) THEN in["owner"]
                     ELSE IF "repo" \in Stated(in) THEN <<>> ELSE q.owner
        /\ r.host = IF "host" \in DOMAIN in THEN in["host"]
                    ELSE IF {"repo", "owner"} \cap Stated(in) # {} THEN "" ELSE q.host
    BY RetargetedIs
  <2> HIDE DEF r
  <2> QED BY <2>1, <2>2
<1>3. p.repo = <<>> \/ p.owner = <<>>
  BY DEF Valid
<1>4. CASE "repo" \in Stated(in)
  <2>1. p.repo = in["repo"] /\ in["repo"] # <<>> /\ p.host = host
    BY <1>2, <1>4, StatedIs DEF HostIn
  <2>2. ScopeOf(p) = "repo" /\ Selector(p) = in["repo"]
    BY <2>1 DEF ScopeOf, Selector, SelectorField
  <2>3. SplitOf(p) = SplitHost(in["repo"], Parts("repo"))
    BY <2>2 DEF SplitOf
  <2> QED BY <1>1, <1>4, <2>1, <2>2, <2>3 DEF TargetNamed, TargetOf
<1>5. CASE "repo" \notin Stated(in) /\ "owner" \in Stated(in)
  <2>1. p.owner = in["owner"] /\ in["owner"] # <<>> /\ p.host = host /\ p.repo = <<>>
    BY <1>2, <1>5, StatedIs DEF HostIn
  <2>2. ScopeOf(p) = "org" /\ Selector(p) = in["owner"]
    BY <2>1 DEF ScopeOf, Selector, SelectorField
  <2>3. SplitOf(p) = SplitHost(in["owner"], Parts("org"))
    BY <2>2 DEF SplitOf
  <2> QED BY <1>1, <1>5, <2>1, <2>2, <2>3 DEF TargetNamed, TargetOf
<1>6. CASE "repo" \notin Stated(in) /\ "owner" \notin Stated(in)
  <2>1. p.repo = q.repo /\ p.owner = q.owner
    BY <1>2, <1>6
  <2>2. ScopeOf(p) = ScopeOf(q) /\ Selector(p) = Selector(q)
    BY <2>1 DEF ScopeOf, Selector, SelectorField
  <2>3. SplitOf(p) = SplitOf(q) /\ SplitOf(q).host = ""
    BY <2>2 DEF SplitOf, IsCanonical
  <2>4. CASE "host" \in DOMAIN in
    <3>1. p.host = host
      BY <1>2, <2>4 DEF HostIn
    <3>2. QueryHost(p) = HostOr(host, DefaultHost)
      BY <1>1, <2>3, <3>1 DEF HostOr
    <3>3. TargetNamed(in, host, TargetOf(q)) = [TargetOf(q) EXCEPT !.host = HostOr(host, DefaultHost)]
      BY <1>6, <2>4 DEF TargetNamed
    <3> QED BY <2>2, <2>3, <3>2, <3>3 DEF TargetOf
  <2>5. CASE "host" \notin DOMAIN in
    <3>1. p.host = q.host
      BY <1>2, <1>6, <2>5
    <3>2. QueryHost(p) = QueryHost(q)
      BY <2>3, <3>1 DEF QueryHost
    <3>3. TargetNamed(in, host, TargetOf(q)) = TargetOf(q)
      BY <1>6, <2>5 DEF TargetNamed
    <3> QED BY <2>2, <2>3, <3>2, <3>3 DEF TargetOf
  <2> QED BY <2>4, <2>5
<1> QED BY <1>4, <1>5, <1>6

---------------------------------------------------------------------------
(* What is remembered belongs to the target its key shows, and the query of  *)
(* the panel is canonical.                                                   *)
IsEntry(key, e) ==
    /\ IsTarget(e.of) /\ key = KeyOf(e.of)
    /\ e.settings["patterns"] # 0 => e.patterns = OwnerOf(e.of)

QueryInv ==
    /\ query # None => IsQuery(query) /\ IsCanonical(query) /\ TargetOf(query) = named
    /\ FiltersAreOfTheirTarget
    /\ setFor = [patterns |-> setFor.patterns, filter |-> setFor.filter]
    /\ \A key \in DOMAIN stored : IsEntry(key, stored[key])
    /\ last # None => last.scope \in {"org", "repo"} /\ last.target \in Seq(Segments)

LEMMA QueryInvSays == QueryInv => TargetIsAsNamed /\ SettingsAreOfTheTarget
<1> SUFFICES ASSUME QueryInv PROVE TargetIsAsNamed /\ SettingsAreOfTheTarget
  OBVIOUS
<1>1. TargetIsAsNamed
  BY CanonicalStays DEF QueryInv, TargetIsAsNamed, TargetOf
<1>2. KeysAreOfTheTarget
  <2> SUFFICES ASSUME query # None, NEW key \in DOMAIN stored
               PROVE  /\ key = TargetKey(query) <=> stored[key].of = named
                      /\ stored[key].of = named => Recalled(query).of = named
    BY DEF KeysAreOfTheTarget
  <2>1. IsTarget(named) /\ TargetKey(query) = KeyOf(named)
    BY CanonicalStays, ValidTargets, KeysOfTargets DEF QueryInv
  <2>2. IsTarget(stored[key].of) /\ key = KeyOf(stored[key].of)
    BY DEF QueryInv, IsEntry
  <2>3. key = TargetKey(query) <=> stored[key].of = named
    BY <2>1, <2>2, KeysDiffer
  <2>4. stored[key].of = named => Recalled(query).of = named
    BY <2>3 DEF Recalled
  <2> QED BY <2>3, <2>4
<1> QED BY <1>1, <1>2 DEF QueryInv, SettingsAreOfTheTarget

LEMMA QueryStarts == QueryInit => QueryInv
BY DEF QueryInit, QueryInv, FiltersAreOfTheirTarget

LEMMA SetForIs ==
    ASSUME NEW was, NEW in, NEW next
    PROVE  /\ WrittenFor(was, in, next).patterns = IF "patterns" \in DOMAIN in THEN OwnerKey(next) ELSE was.patterns
           /\ WrittenFor(was, in, next).filter = IF "filter" \in DOMAIN in THEN DatasetQueryId(next) ELSE was.filter
           /\ WrittenFor(was, in, next) =
                [patterns |-> WrittenFor(was, in, next).patterns, filter |-> WrittenFor(was, in, next).filter]
BY DEF WrittenFor

(* A patch that leaves the dataset alone leaves its identity alone.          *)
LEMMA SameDataset ==
    ASSUME NEW q, IsQuery(q), IsCanonical(q), NEW p, IsQuery(p), DatasetQueryId(p) = DatasetQueryId(q)
    PROVE  Canonical(p) = p /\ IsCanonical(p)
<1>1. \A f \in DatasetFields : p[f] = q[f]
  <2>1. \A f \in DatasetFields : DatasetQueryId(p)[f] = p[f] /\ DatasetQueryId(q)[f] = q[f]
    BY DEF DatasetQueryId, Pick
  <2> QED BY <2>1
<1>2. p.repo = q.repo /\ p.owner = q.owner /\ p.host = q.host
  BY <1>1, FieldsHave
<1>3. IsCanonical(p)
  BY <1>2, SameTargets DEF IsCanonical
<1> QED BY <1>3, CanonicalStays

LEMMA ApplyPatchKeeps ==
    ASSUME QueryInv, NEW in \in Inputs \union Patches, ApplyPatch(in)
    PROVE  QueryInv'
<1> DEFINE p == Patched(query, in)
           next == Canonical(p)
<1>1. /\ query # None /\ Valid(p) /\ query' = next /\ named' = TargetNamed(in, HostIn(in), named)
      /\ setFor' = WrittenFor(setFor, in, query') /\ UNCHANGED <<stored, last>>
  BY DEF ApplyPatch
<1>2. IsNaming(in) /\ IsQuery(query) /\ IsCanonical(query) /\ TargetOf(query) = named
  BY <1>1, QueryAssumption DEF QueryInv
<1>3. /\ IsQuery(p)
      /\ p.patterns = IF "patterns" \in DOMAIN in THEN in["patterns"]
                      ELSE IF OwnerKey(p) # OwnerKey(query) THEN 0 ELSE query.patterns
      /\ p.filter = IF "filter" \in DOMAIN in THEN in["filter"]
                    ELSE IF DatasetQueryId(p) # DatasetQueryId(query) THEN 0 ELSE query.filter
  BY <1>2, PatchedIs
<1>4. TargetOf(p) = named'
  BY <1>1, <1>2, NamedIs
<1> HIDE DEF p
<1>5. /\ IsQuery(next) /\ IsCanonical(next) /\ TargetOf(next) = TargetOf(p)
      /\ next.patterns = p.patterns /\ next.filter = p.filter
  <2>1. "patterns" \in Fields \ {"repo", "owner", "host"} /\ "filter" \in Fields \ {"repo", "owner", "host"}
    BY FieldsHave
  <2> QED BY <1>1, <1>3, <2>1, CanonicalIs
<1>6. OwnerKey(next) = OwnerKey(p)
  BY <1>5, KeysOfTargets
<1> HIDE DEF next
<1>7. query'.patterns # 0 => setFor'.patterns = OwnerKey(query')
  BY <1>1, <1>3, <1>5, <1>6, SetForIs DEF QueryInv, FiltersAreOfTheirTarget
<1>8. query'.filter # 0 => setFor'.filter = DatasetQueryId(query')
  <2>1. CASE "filter" \in DOMAIN in
    BY <1>1, <2>1, SetForIs
  <2>2. CASE "filter" \notin DOMAIN in
    <3> SUFFICES ASSUME query'.filter # 0 PROVE setFor'.filter = DatasetQueryId(query')
      OBVIOUS
    <3>1. DatasetQueryId(p) = DatasetQueryId(query) /\ query.filter # 0
      BY <1>1, <1>3, <1>5, <2>2
    <3>2. next = p
      BY <1>2, <1>3, <3>1, SameDataset DEF next
    <3>3. setFor'.filter = setFor.filter
      BY <1>1, <2>2, SetForIs
    <3> QED BY <1>1, <3>1, <3>2, <3>3 DEF QueryInv, FiltersAreOfTheirTarget
  <2> QED BY <2>1, <2>2
<1>9. setFor' = [patterns |-> setFor'.patterns, filter |-> setFor'.filter]
  BY <1>1, SetForIs
<1> QED BY <1>1, <1>4, <1>5, <1>7, <1>8, <1>9 DEF QueryInv, FiltersAreOfTheirTarget

LEMMA RememberKeeps ==
    ASSUME QueryInv, Remember
    PROVE  QueryInv'
<1> DEFINE K == TargetKey(query)
           e == [settings |-> PersistedOf(query), of |-> named, patterns |-> setFor.patterns]
<1>1. /\ query # None /\ UNCHANGED <<query, named, setFor>>
      /\ stored' = [k \in DOMAIN stored \union {K} |-> IF k = K THEN e ELSE stored[k]]
      /\ last' = [target |-> FormatQuery(query), scope |-> ScopeOf(query)]
  BY DEF Remember
<1>2. /\ IsQuery(query) /\ IsCanonical(query) /\ TargetOf(query) = named
      /\ query.patterns # 0 => setFor.patterns = OwnerKey(query)
  BY <1>1 DEF QueryInv, FiltersAreOfTheirTarget
<1>3. IsTarget(named) /\ K = KeyOf(named) /\ OwnerKey(query) = OwnerOf(named)
  BY <1>2, CanonicalStays, ValidTargets, KeysOfTargets
<1>4. e.of = named /\ e.patterns = setFor.patterns /\ e.settings["patterns"] = query.patterns
  BY FieldsHave DEF PersistedOf, Pick
<1> HIDE DEF e, K
<1>5. IsEntry(K, e)
  BY <1>2, <1>3, <1>4 DEF IsEntry
<1>6. \A key \in DOMAIN stored' : IsEntry(key, stored'[key])
  BY <1>1, <1>5 DEF QueryInv
<1>7. last'.scope \in {"org", "repo"} /\ last'.target \in Seq(Segments)
  <2>1. FormatQuery(query) = Shown(named)
    BY <1>2 DEF FormatQuery, Shown, TargetOf
  <2>2. Shown(named) \in Seq(Segments)
    BY <1>3, OnePrefixed DEF IsTarget, Shown
  <2>3. ScopeOf(query) \in {"org", "repo"}
    BY DEF ScopeOf
  <2> QED BY <1>1, <2>1, <2>2, <2>3
<1> QED BY <1>1, <1>2, <1>6, <1>7 DEF QueryInv, FiltersAreOfTheirTarget, IsEntry

---------------------------------------------------------------------------
(* A canvas opened cold.                                                     *)
LEMMA NormalizedIs ==
    ASSUME NEW in, IsNaming(in)
    PROVE  LET n == Normalized(in)
           IN  /\ IsQuery(n)
               /\ n.repo = (IF "repo" \in DOMAIN in THEN in["repo"] ELSE <<>>)
               /\ n.owner = (IF "owner" \in DOMAIN in THEN in["owner"] ELSE <<>>)
               /\ n.host = HostIn(in)
               /\ \A f \in {"patterns", "filter"} : f \notin DOMAIN in => n[f] = 0
<1> DEFINE n == Normalized(in)
<1>1. n = [f \in Fields |-> n[f]] /\ DOMAIN n = Fields
  BY DEF Normalized
<1>2. /\ n.repo = (IF "repo" \in DOMAIN in THEN in["repo"] ELSE <<>>)
      /\ n.owner = (IF "owner" \in DOMAIN in THEN in["owner"] ELSE <<>>)
      /\ n.host = HostIn(in)
      /\ \A f \in {"patterns", "filter"} : f \notin DOMAIN in => n[f] = 0
  BY FieldsHave DEF Normalized, Default, HostIn
<1> HIDE DEF n
<1>3. HostIn(in) \in Hosts
  BY DEF HostIn, IsNaming, Hosts
<1>4. <<>> \in Seq(Segments)
  OBVIOUS
<1>5. IsQuery(n)
  BY <1>1, <1>2, <1>3, <1>4 DEF IsQuery, IsNaming
<1> QED BY <1>2, <1>5 DEF n

(* What the input, the workspace or the last target names.                   *)
Named(in, workspace) ==
    IF {"repo", "owner"} \cap Stated(in) # {} THEN TargetNamed(in, HostIn(in), None)
    ELSE IF workspace # None THEN TargetNamed([repo |-> workspace.nwo], workspace.host, None)
    ELSE TargetNamed(IF last.scope = "org" THEN [owner |-> last.target] ELSE [repo |-> last.target], HostIn(in), None)

Spelt(scope, selector, host) ==
    [scope |-> scope, host |-> HostOr(SplitHost(selector, Parts(scope)).host, HostOr(host, DefaultHost)),
     path |-> SplitHost(selector, Parts(scope)).path]

LEMMA RepoNamed ==
    ASSUME NEW in, NEW host, "repo" \in Stated(in)
    PROVE  TargetNamed(in, host, None) = Spelt("repo", in["repo"], host)
BY DEF TargetNamed, Spelt

LEMMA OwnerNamed ==
    ASSUME NEW in, NEW host, "repo" \notin Stated(in), "owner" \in Stated(in)
    PROVE  TargetNamed(in, host, None) = Spelt("org", in["owner"], host)
BY DEF TargetNamed, Spelt

LEMMA OneNamed ==
    ASSUME NEW s, s # <<>>, NEW host
    PROVE  /\ TargetNamed([repo |-> s], host, None) = Spelt("repo", s, host)
           /\ TargetNamed([owner |-> s], host, None) = Spelt("org", s, host)
<1>1. "repo" \in Stated([repo |-> s]) /\ [repo |-> s]["repo"] = s
  BY DEF Stated
<1>2. "repo" \notin Stated([owner |-> s]) /\ "owner" \in Stated([owner |-> s]) /\ [owner |-> s]["owner"] = s
  BY DEF Stated
<1>3. TargetNamed([repo |-> s], host, None) = Spelt("repo", s, host)
  BY <1>1, RepoNamed
<1>4. TargetNamed([owner |-> s], host, None) = Spelt("org", s, host)
  BY <1>2, OwnerNamed
<1> QED BY <1>3, <1>4

LEMMA ValidIsSpelt ==
    ASSUME NEW m, IsQuery(m), Valid(m)
    PROVE  TargetOf(m) = Spelt(ScopeOf(m), Selector(m), m.host)
BY ValidHosts DEF TargetOf, Spelt, SplitOf

LEMMA ScopeIs ==
    ASSUME NEW m, m.repo = <<>> \/ m.owner = <<>>, Selector(m) # <<>>
    PROVE  /\ m.repo # <<>> => ScopeOf(m) = "repo" /\ Selector(m) = m.repo
           /\ m.repo = <<>> => ScopeOf(m) = "org" /\ Selector(m) = m.owner /\ m.owner # <<>>
BY DEF ScopeOf, Selector, SelectorField

LEMMA MaterializedIs ==
    ASSUME QueryInv, NEW in \in Inputs, NEW workspace \in Workspaces, Valid(Materialized(in, workspace))
    PROVE  LET m == Materialized(in, workspace)
           IN  /\ IsQuery(m) /\ TargetOf(m) = Named(in, workspace)
               /\ \A f \in {"patterns", "filter"} : f \notin DOMAIN in => m[f] = 0
<1> DEFINE n == Normalized(in)
           m == Materialized(in, workspace)
           states == {"repo", "owner"} \cap Stated(in) # {}
<1>1. /\ IsQuery(n) /\ n.host = HostIn(in)
      /\ n.repo = (IF "repo" \in DOMAIN in THEN in["repo"] ELSE <<>>)
      /\ n.owner = (IF "owner" \in DOMAIN in THEN in["owner"] ELSE <<>>)
      /\ \A f \in {"patterns", "filter"} : f \notin DOMAIN in => n[f] = 0
  BY QueryAssumption, NormalizedIs
<1>2. m = IF states THEN n
          ELSE IF workspace # None THEN [n EXCEPT !.repo = workspace.nwo, !.host = workspace.host]
          ELSE IF last = None THEN n
          ELSE IF last.scope = "org" THEN [n EXCEPT !.owner = last.target]
          ELSE [n EXCEPT !.repo = last.target]
  BY DEF Materialized
<1>3. (m.repo = <<>> \/ m.owner = <<>>) /\ Selector(m) # <<>>
  BY DEF Valid
<1>4. ~states => n.repo = <<>> /\ n.owner = <<>>
  BY <1>1, StatedIs
<1> HIDE DEF n, m
<1>5. /\ m.repo # <<>> => ScopeOf(m) = "repo" /\ Selector(m) = m.repo
      /\ m.repo = <<>> => ScopeOf(m) = "org" /\ Selector(m) = m.owner /\ m.owner # <<>>
  BY <1>3, ScopeIs
<1>9. IsQuery(m) => TargetOf(m) = Spelt(ScopeOf(m), Selector(m), m.host)
  BY ValidIsSpelt DEF m
<1>6. CASE states
  <2>1. m = n
    BY <1>2, <1>6
  <2>2. TargetOf(m) = Spelt(ScopeOf(m), Selector(m), HostIn(in))
    BY <1>1, <1>9, <2>1
  <2>3. Named(in, workspace) = TargetNamed(in, HostIn(in), None)
    BY <1>6 DEF Named
  <2>4. CASE "repo" \in Stated(in)
    <3>1. m.repo = in["repo"] /\ in["repo"] # <<>>
      BY <1>1, <2>1, <2>4, StatedIs
    <3>2. TargetOf(m) = Named(in, workspace)
      BY <1>5, <2>2, <2>3, <2>4, <3>1, RepoNamed
    <3> QED BY <1>1, <2>1, <3>2 DEF m
  <2>5. CASE "repo" \notin Stated(in)
    <3>1. m.owner = in["owner"] /\ m.repo = <<>> /\ "owner" \in Stated(in)
      BY <1>1, <1>3, <1>6, <2>1, <2>5, StatedIs
    <3>2. TargetOf(m) = Named(in, workspace)
      BY <1>5, <2>2, <2>3, <2>5, <3>1, OwnerNamed
    <3> QED BY <1>1, <2>1, <3>2 DEF m
  <2> QED BY <2>4, <2>5
<1>7. CASE ~states /\ workspace # None
  <2> DEFINE u == [n EXCEPT !.repo = workspace.nwo]
  <2>1. m = [n EXCEPT !.repo = workspace.nwo, !.host = workspace.host]
    BY <1>2, <1>7
  <2>2. [n EXCEPT !.repo = workspace.nwo, !.host = workspace.host] = [u EXCEPT !.host = workspace.host]
    OBVIOUS
  <2>3. /\ u = [f \in Fields |-> u[f]] /\ DOMAIN u = Fields /\ u.repo = workspace.nwo
        /\ \A f \in Fields \ {"repo"} : u[f] = n[f]
    BY <1>1, FieldsHave DEF IsQuery
  <2> HIDE DEF u
  <2>4. /\ m = [f \in Fields |-> m[f]] /\ DOMAIN m = Fields /\ m.repo = workspace.nwo /\ m.host = workspace.host
        /\ \A f \in Fields \ {"repo", "host"} : m[f] = n[f]
    BY <2>1, <2>2, <2>3, FieldsHave
  <2>5. workspace.nwo \in Seq(Segments) /\ workspace.host \in Hosts
    BY <1>7, QueryAssumption DEF Hosts
  <2>6. m.owner = <<>> /\ m["patterns"] = n["patterns"] /\ m["filter"] = n["filter"]
    BY <1>4, <1>7, <2>4, FieldsHave
  <2>7. IsQuery(m)
    BY <1>1, <1>4, <1>7, <2>4, <2>5, <2>6 DEF IsQuery
  <2>8. workspace.nwo # <<>>
    BY <1>3, <2>4, <2>6 DEF Selector, SelectorField, ScopeOf
  <2>9. TargetOf(m) = Named(in, workspace)
    <3>1. TargetOf(m) = Spelt("repo", workspace.nwo, workspace.host)
      BY <1>5, <1>9, <2>4, <2>7, <2>8
    <3>2. Named(in, workspace) = TargetNamed([repo |-> workspace.nwo], workspace.host, None)
      BY <1>7 DEF Named
    <3> QED BY <2>8, <3>1, <3>2, OneNamed
  <2> QED BY <1>1, <2>6, <2>7, <2>9 DEF m
<1>8. CASE ~states /\ workspace = None
  <2>1. last # None
    BY <1>2, <1>3, <1>4, <1>8 DEF Selector, SelectorField
  <2>2. last.target \in Seq(Segments)
    BY <2>1 DEF QueryInv
  <2>3. CASE last.scope = "org"
    <3>1. m = [n EXCEPT !.owner = last.target]
      BY <1>2, <1>8, <2>1, <2>3
    <3>2. /\ m = [f \in Fields |-> m[f]] /\ DOMAIN m = Fields /\ m.owner = last.target
          /\ \A f \in Fields \ {"owner"} : m[f] = n[f]
      BY <1>1, <3>1, FieldsHave DEF IsQuery
    <3>3. m.repo = <<>> /\ m.host = n.host /\ m["patterns"] = n["patterns"] /\ m["filter"] = n["filter"]
      BY <1>4, <1>8, <3>2, FieldsHave
    <3>4. IsQuery(m)
      BY <1>1, <1>4, <1>8, <2>2, <3>2, <3>3 DEF IsQuery
    <3>5. last.target # <<>>
      BY <1>3, <3>2, <3>3 DEF Selector, SelectorField, ScopeOf
    <3>6. TargetOf(m) = Named(in, workspace)
      <4>1. TargetOf(m) = Spelt("org", last.target, HostIn(in))
        BY <1>1, <1>5, <1>9, <3>2, <3>3, <3>4
      <4>2. Named(in, workspace) = TargetNamed([owner |-> last.target], HostIn(in), None)
        BY <1>8, <2>3 DEF Named
      <4> QED BY <3>5, <4>1, <4>2, OneNamed
    <3> QED BY <1>1, <3>3, <3>4, <3>6 DEF m
  <2>4. CASE last.scope # "org"
    <3>1. m = [n EXCEPT !.repo = last.target]
      BY <1>2, <1>8, <2>1, <2>4
    <3>2. /\ m = [f \in Fields |-> m[f]] /\ DOMAIN m = Fields /\ m.repo = last.target
          /\ \A f \in Fields \ {"repo"} : m[f] = n[f]
      BY <1>1, <3>1, FieldsHave DEF IsQuery
    <3>3. m.owner = <<>> /\ m.host = n.host /\ m["patterns"] = n["patterns"] /\ m["filter"] = n["filter"]
      BY <1>4, <1>8, <3>2, FieldsHave
    <3>4. IsQuery(m)
      BY <1>1, <1>4, <1>8, <2>2, <3>2, <3>3 DEF IsQuery
    <3>5. last.target # <<>>
      BY <1>3, <3>2, <3>3 DEF Selector, SelectorField, ScopeOf
    <3>6. TargetOf(m) = Named(in, workspace)
      <4>1. TargetOf(m) = Spelt("repo", last.target, HostIn(in))
        BY <1>1, <1>5, <1>9, <3>2, <3>3, <3>4, <3>5
      <4>2. Named(in, workspace) = TargetNamed([repo |-> last.target], HostIn(in), None)
        BY <1>8, <2>4 DEF Named
      <4> QED BY <3>5, <4>1, <4>2, OneNamed
    <3> QED BY <1>1, <3>3, <3>4, <3>6 DEF m
  <2> QED BY <2>3, <2>4
<1> QED BY <1>6, <1>7, <1>8

LEMMA OpenKeeps ==
    ASSUME QueryInv, NEW in \in Inputs, NEW workspace \in Workspaces, Open(in, workspace)
    PROVE  QueryInv'
<1> DEFINE m == Materialized(in, workspace)
           base == Canonical(m)
           rem == Remembered(in, base)
           p == Patched(base, rem)
           next == Canonical(p)
           was == [setFor EXCEPT !.patterns = IF TargetKey(base) \in DOMAIN stored
                     THEN stored[TargetKey(base)].patterns ELSE OwnerKey(base)]
<1>1. /\ Valid(m) /\ query' = next /\ named' = Named(in, workspace)
      /\ setFor' = WrittenFor(was, in, next) /\ UNCHANGED <<stored, last>>
  BY DEF Open, Opened, Named
<1>2. /\ IsQuery(m) /\ TargetOf(m) = named'
      /\ \A f \in {"patterns", "filter"} : f \notin DOMAIN in => m[f] = 0
  BY <1>1, MaterializedIs
<1>3. IsNaming(in)
  BY QueryAssumption
<1> HIDE DEF m
<1>4. /\ IsQuery(base) /\ IsCanonical(base) /\ TargetOf(base) = TargetOf(m)
      /\ \A f \in Fields \ {"repo", "owner", "host"} : base[f] = m[f]
  BY <1>1, <1>2, CanonicalIs
<1>5. base["patterns"] = m["patterns"] /\ base["filter"] = m["filter"]
  BY <1>4, FieldsHave
<1> HIDE DEF base
<1>6. /\ DOMAIN rem \subseteq PersistedFields \ DOMAIN in
      /\ TargetKey(base) \in DOMAIN stored =>
           \A f \in DOMAIN rem : rem[f] = stored[TargetKey(base)].settings[f]
  BY DEF Remembered, Recalled, Pick
<1> HIDE DEF rem
<1>7. "repo" \notin DOMAIN rem /\ "owner" \notin DOMAIN rem /\ "host" \notin DOMAIN rem /\ "filter" \notin DOMAIN rem
  BY <1>6, FieldsHave
<1>8. IsNaming(rem)
  BY <1>7 DEF IsNaming
<1>9. p.repo = base.repo /\ p.owner = base.owner /\ p.host = base.host
  <2> DEFINE r == Retargeted(base, rem)
  <2>1. "repo" \notin Stated(rem) /\ "owner" \notin Stated(rem)
    BY <1>7, StatedIs
  <2>2. r.repo = base.repo /\ r.owner = base.owner /\ r.host = base.host
    BY <1>4, <1>7, <1>8, <2>1, RetargetedIs
  <2>3. p.repo = r.repo /\ p.owner = r.owner /\ p.host = r.host
    BY <1>4, <1>8, PatchedIs
  <2> HIDE DEF r
  <2> QED BY <2>2, <2>3
<1>10. /\ IsQuery(p)
       /\ p.patterns = IF "patterns" \in DOMAIN rem THEN rem["patterns"]
                       ELSE IF OwnerKey(p) # OwnerKey(base) THEN 0 ELSE base.patterns
       /\ p.filter = IF "filter" \in DOMAIN rem THEN rem["filter"]
                     ELSE IF DatasetQueryId(p) # DatasetQueryId(base) THEN 0 ELSE base.filter
  BY <1>4, <1>8, PatchedIs
<1> HIDE DEF p
<1>11. IsCanonical(p) /\ TargetOf(p) = TargetOf(base)
  BY <1>4, <1>9, SameTargets DEF IsCanonical
<1>12. Valid(p) /\ next = p
  BY <1>10, <1>11, CanonicalStays
<1> HIDE DEF next
<1> HIDE DEF was
<1>13. /\ setFor'.patterns = IF "patterns" \in DOMAIN in THEN OwnerKey(p) ELSE was.patterns
       /\ setFor'.filter = IF "filter" \in DOMAIN in THEN DatasetQueryId(p) ELSE was.filter
       /\ setFor' = [patterns |-> setFor'.patterns, filter |-> setFor'.filter]
  BY <1>1, <1>12, SetForIs
<1>14. p.patterns # 0 => setFor'.patterns = OwnerKey(p)
  <2>1. CASE "patterns" \in DOMAIN in
    BY <1>13, <2>1
  <2>2. CASE "patterns" \notin DOMAIN in /\ TargetKey(base) \in DOMAIN stored
    <3> DEFINE e == stored[TargetKey(base)]
    <3>1. p.patterns \in {0, e.settings["patterns"]}
      <4>1. OwnerKey(p) = OwnerKey(base)
        BY <1>11, KeysOfTargets
      <4>2. base["patterns"] = 0
        BY <1>2, <1>5, <2>2
      <4> QED BY <1>6, <1>10, <2>2, <4>1, <4>2
    <3>2. IsEntry(TargetKey(base), e)
      BY <2>2 DEF QueryInv
    <3>3. IsTarget(TargetOf(base)) /\ TargetKey(base) = KeyOf(TargetOf(base))
      BY <1>4, CanonicalStays, ValidTargets, KeysOfTargets
    <3>4. e.of = TargetOf(base)
      BY <3>2, <3>3, KeysDiffer DEF IsEntry
    <3>5. OwnerKey(p) = OwnerOf(e.of)
      BY <1>11, <3>4, KeysOfTargets
    <3>6. was.patterns = e.patterns
      BY <2>2 DEF QueryInv, was
    <3> HIDE DEF e
    <3> QED BY <1>13, <2>2, <3>1, <3>2, <3>5, <3>6 DEF IsEntry
  <2>3. CASE "patterns" \notin DOMAIN in /\ TargetKey(base) \notin DOMAIN stored
    <3>1. was.patterns = OwnerKey(base)
      BY <2>3 DEF QueryInv, was
    <3>2. OwnerKey(p) = OwnerKey(base)
      BY <1>11, KeysOfTargets
    <3> QED BY <1>13, <2>3, <3>1, <3>2
  <2> QED BY <2>1, <2>2, <2>3
<1>15. p.filter # 0 => setFor'.filter = DatasetQueryId(p)
  <2>1. CASE "filter" \in DOMAIN in
    BY <1>13, <2>1
  <2>2. CASE "filter" \notin DOMAIN in
    <3>1. base["filter"] = 0
      BY <1>2, <1>5, <2>2
    <3> QED BY <1>7, <1>10, <3>1
  <2> QED BY <2>1, <2>2
<1>16. /\ query' = p /\ IsQuery(p) /\ IsCanonical(p) /\ TargetOf(p) = named'
  BY <1>1, <1>2, <1>4, <1>10, <1>11, <1>12
<1> QED BY <1>1, <1>13, <1>14, <1>15, <1>16 DEF QueryInv, FiltersAreOfTheirTarget

LEMMA QueryStep == QueryInv /\ [QueryNext]_queryVars => QueryInv'
<1> SUFFICES ASSUME QueryInv, [QueryNext]_queryVars PROVE QueryInv'
  OBVIOUS
<1>1. CASE Close
  BY <1>1 DEF Close, QueryInv, FiltersAreOfTheirTarget
<1>2. CASE UNCHANGED queryVars
  BY <1>2 DEF queryVars, QueryInv, FiltersAreOfTheirTarget
<1> QED BY <1>1, <1>2, OpenKeeps, ApplyPatchKeeps, RememberKeeps DEF QueryNext

(* The inductive invariant of a query and of what is remembered, whatever an *)
(* older version had remembered by the display form of a target.             *)
THEOREM QueryInvariant == QuerySpec => []QueryInv
<1> QED BY QueryStarts, QueryStep, PTL DEF QuerySpec

(* The panel shows the target last named, in its one spelling, through any   *)
(* chain of openings and patches.                                            *)
THEOREM TargetStaysAsNamed == QuerySpec => []TargetIsAsNamed
<1> QED BY QueryInvariant, QueryInvSays, PTL

(* Settings are kept under the key of the target they were saved for and no  *)
(* other, and whoever has saved finds them again; patterns and period        *)
(* filters are in force only where they were set (resolveQuery, prefs). One  *)
(* who has saved nothing may find what an older version remembered of a      *)
(* target that is displayed alike, patterns with it (extension.mjs:110).     *)
THEOREM SettingsStayOfTheTarget == QuerySpec => []SettingsAreOfTheTarget
<1> QED BY QueryInvariant, QueryInvSays, PTL

---------------------------------------------------------------------------
(* RunnerTable. *)
(* A set of numbers that is not empty has a least one. *)
LEMMA LeastOf ==
    ASSUME NEW T \in SUBSET Nat, T # {}
    PROVE  \E m \in T : \A n \in T : m <= n
<1>1. PICK m \in T : \A n \in T : ~ (<<n, m>> \in OpToRel(<, Nat))
  BY NatLessThanWellFounded, WFMin, Zenon
<1>2. \A n \in T : ~ (n < m)
  BY <1>1 DEF OpToRel
<1> QED BY <1>2

(* A finite set with a strict total order can be listed in that order: each  *)
(* member at the place the number of those before it gives it.               *)
LEMMA CanBeListed ==
    ASSUME NEW S, IsFiniteSet(S), NEW L,
           \A a \in S : <<a, a>> \notin L,
           \A a, b \in S : a # b => <<a, b>> \in L \/ <<b, a>> \in L,
           \A a, b, c \in S : <<a, b>> \in L /\ <<b, c>> \in L => <<a, c>> \in L
    PROVE  \E s \in [1 .. Cardinality(S) -> S] : \A i, j \in DOMAIN s : i < j => <<s[i], s[j]>> \in L
<1> DEFINE n == Cardinality(S)
           Before(a) == {b \in S : <<b, a>> \in L}
           rank == [a \in S |-> Cardinality(Before(a)) + 1]
<1>1. n \in Nat
  BY FS_CardinalityType
<1>2. ASSUME NEW a \in S
      PROVE  /\ Before(a) \in SUBSET (S \ {a}) /\ IsFiniteSet(Before(a))
             /\ Cardinality(Before(a)) \in Nat /\ Cardinality(Before(a)) <= n - 1
  <2>1. Before(a) \in SUBSET (S \ {a})
    OBVIOUS
  <2>2. IsFiniteSet(S \ {a}) /\ Cardinality(S \ {a}) = n - 1
    BY FS_RemoveElement
  <2> HIDE DEF Before, n
  <2>3. IsFiniteSet(Before(a)) /\ Cardinality(Before(a)) <= n - 1
    BY <2>1, <2>2, FS_Subset
  <2> QED BY <2>1, <2>3, FS_CardinalityType
<1>3. ASSUME NEW a \in S, NEW b \in S, <<a, b>> \in L
      PROVE  Cardinality(Before(a)) < Cardinality(Before(b))
  <2>1. Before(a) \in SUBSET Before(b) /\ a \in Before(b) /\ a \notin Before(a)
    BY <1>3
  <2>2. IsFiniteSet(Before(b)) /\ Cardinality(Before(a)) \in Nat /\ Cardinality(Before(b)) \in Nat
    BY <1>2
  <2> HIDE DEF Before
  <2>3. Cardinality(Before(a)) <= Cardinality(Before(b)) /\ Cardinality(Before(b)) # Cardinality(Before(a))
    BY <2>1, <2>2, FS_Subset
  <2> QED BY <2>2, <2>3
<1>4. rank \in [S -> 1 .. n]
  <2> SUFFICES ASSUME NEW a \in S PROVE Cardinality(Before(a)) + 1 \in 1 .. n
    OBVIOUS
  <2> HIDE DEF Before, n
  <2> QED BY <1>1, <1>2
<1>5. rank \in Injection(S, 1 .. n)
  <2> SUFFICES ASSUME NEW a \in S, NEW b \in S, a # b PROVE rank[a] # rank[b]
    BY <1>4 DEF Injection, IsInjective
  <2> QED
    <3>1. rank[a] = Cardinality(Before(a)) + 1 /\ rank[b] = Cardinality(Before(b)) + 1
      OBVIOUS
    <3>2. Cardinality(Before(a)) # Cardinality(Before(b))
      <4>1. Cardinality(Before(a)) \in Nat /\ Cardinality(Before(b)) \in Nat
        BY <1>2
      <4>2. CASE <<a, b>> \in L
        <5>1. Cardinality(Before(a)) < Cardinality(Before(b))
          BY <4>2, <1>3
        <5> HIDE DEF Before
        <5> QED BY <5>1, <4>1
      <4>3. CASE <<b, a>> \in L
        <5>1. Cardinality(Before(b)) < Cardinality(Before(a))
          BY <4>3, <1>3
        <5> HIDE DEF Before
        <5> QED BY <5>1, <4>1
      <4> QED BY <4>2, <4>3
    <3> HIDE DEF Before, rank
    <3> QED BY <3>1, <3>2, <1>2
<1>6. rank \in Surjection(S, 1 .. n)
  <2> HIDE DEF rank
  <2>1. IsFiniteSet(1 .. n) /\ Cardinality(1 .. n) = n
    <3> HIDE DEF n
    <3> QED BY <1>1, FS_Interval
  <2> QED BY <1>5, <2>1, FS_Injection
<1> DEFINE s == [i \in 1 .. n |-> CHOOSE a \in S : rank[a] = i]
<1>7. \A i \in 1 .. n : s[i] \in S /\ rank[s[i]] = i
  <2> HIDE DEF rank
  <2> QED BY <1>6 DEF Surjection
<1>8. ASSUME NEW i \in 1 .. n, NEW j \in 1 .. n, i < j PROVE <<s[i], s[j]>> \in L
  <2>1. s[i] \in S /\ s[j] \in S /\ rank[s[i]] = i /\ rank[s[j]] = j
    BY <1>7
  <2> DEFINE a == s[i]
             b == s[j]
  <2>2. a \in S /\ b \in S /\ i = Cardinality(Before(a)) + 1 /\ j = Cardinality(Before(b)) + 1
    BY <2>1
  <2> HIDE DEF s, a, b, Before
  <2>3. a # b
    BY <2>2, <1>8, <1>1
  <2>4. Cardinality(Before(a)) \in Nat /\ Cardinality(Before(b)) \in Nat
    BY <2>2, <1>2
  <2>5. <<b, a>> \notin L
    BY <2>2, <2>4, <1>3, <1>8, <1>1
  <2>6. <<a, b>> \in L
    BY <2>2, <2>3, <2>5
  <2> QED BY <2>6 DEF a, b
<1> QED
  <2>1. s \in [1 .. n -> S]
    BY <1>7
  <2> HIDE DEF s
  <2>2. \A i, j \in DOMAIN s : i < j => <<s[i], s[j]>> \in L
    BY <1>8, <2>1
  <2> QED BY <2>1, <2>2
---------------------------------------------------------------------------
(* The order of the table. Criteria of which the first that tells two rows   *)
(* apart decides, over names that no two rows share, put any rows in one     *)
(* order.                                                                    *)
Sorts == {sorts \in Seq(Criteria) : IsInjective([i \in DOMAIN sorts |-> sorts[i].key])}
NamedApart(found) == found \subseteq RankedRows /\ \A a, b \in found : a.r = b.r => a = b

LEMMA CriteriaAreRead ==
    ASSUME NEW sorts \in Seq(Criteria), NEW i \in DOMAIN sorts, NEW a \in RankedRows
    PROVE  /\ sorts[i].key \in SortColumns /\ sorts[i].down \in BOOLEAN
           /\ Value(a, sorts[i].key) \in Int /\ a.r \in Int
<1>1. sorts[i] \in Criteria
  BY ElementOfSeq
<1>2. sorts[i].key \in SortColumns /\ sorts[i].down \in BOOLEAN
  BY <1>1 DEF Criteria
<1> QED BY <1>2, TableAssumption

LEMMA EarlierTellsApart ==
    ASSUME NEW sorts \in Seq(Criteria), NEW a \in RankedRows, NEW b \in RankedRows, Earlier(a, b, sorts)
    PROVE  a # b
<1> SUFFICES ASSUME a = b PROVE FALSE
  OBVIOUS
<1>1. \A i \in DOMAIN sorts : Value(a, sorts[i].key) = Value(b, sorts[i].key)
  OBVIOUS
<1>2. ~ (a.r < b.r)
  BY TableAssumption
<1> QED BY <1>1, <1>2 DEF Earlier

LEMMA EarlierIsTotal ==
    ASSUME NEW sorts \in Seq(Criteria), NEW a \in RankedRows, NEW b \in RankedRows, a.r # b.r
    PROVE  Earlier(a, b, sorts) \/ Earlier(b, a, sorts)
<1> DEFINE V(row, i) == Value(row, sorts[i].key)
           telling == {i \in DOMAIN sorts : V(a, i) # V(b, i)}
<1>1. DOMAIN sorts = 1 .. Len(sorts) /\ Len(sorts) \in Nat
  OBVIOUS
<1>2. \A i \in DOMAIN sorts : V(a, i) \in Int /\ V(b, i) \in Int
  BY CriteriaAreRead
<1>3. a.r \in Int /\ b.r \in Int
  BY TableAssumption
<1>4. CASE telling = {}
  <2>1. \A i \in DOMAIN sorts : ~ (V(a, i) # V(b, i)) /\ ~ (V(b, i) # V(a, i))
    BY <1>4
  <2>2. a.r < b.r \/ b.r < a.r
    BY <1>3
  <2> QED BY <2>1, <2>2 DEF Earlier
<1>5. CASE telling # {}
  <2>1. telling \in SUBSET Nat
    BY <1>1
  <2>2. PICK i \in telling : \A j \in telling : i <= j
    <3> HIDE DEF telling
    <3> QED BY <1>5, <2>1, LeastOf
  <2>3. i \in DOMAIN sorts /\ V(a, i) # V(b, i)
    BY <2>2
  <2>4. \A j \in 1 .. i - 1 : V(a, j) = V(b, j)
    <3> SUFFICES ASSUME NEW j \in 1 .. i - 1 PROVE j \notin telling /\ j \in DOMAIN sorts
      OBVIOUS
    <3>1. j \notin telling
      <4> HIDE DEF telling
      <4> QED BY <2>1, <2>2
    <3>2. j \in DOMAIN sorts
      BY <1>1, <2>3
    <3> QED BY <3>1, <3>2
  <2>5. V(a, i) < V(b, i) \/ V(b, i) < V(a, i)
    <3>1. V(a, i) \in Int /\ V(b, i) \in Int /\ V(a, i) # V(b, i)
      BY <2>3, <1>2
    <3> HIDE DEF V
    <3> QED BY <3>1
  <2>6. sorts[i].down \in BOOLEAN
    BY <2>3, CriteriaAreRead
  <2>7. CASE V(a, i) < V(b, i)
    <3>1. V(b, i) > V(a, i)
      BY <2>7, <1>2, <2>3
    <3> QED BY <3>1, <2>7, <2>3, <2>4, <2>6 DEF Earlier
  <2>8. CASE V(b, i) < V(a, i)
    <3>1. V(a, i) > V(b, i)
      BY <2>8, <1>2, <2>3
    <3> QED BY <3>1, <2>8, <2>3, <2>4, <2>6 DEF Earlier
  <2> QED BY <2>5, <2>7, <2>8
<1> QED BY <1>4, <1>5

LEMMA EarlierIsTransitive ==
    ASSUME NEW sorts \in Seq(Criteria), NEW a \in RankedRows, NEW b \in RankedRows, NEW c \in RankedRows,
           Earlier(a, b, sorts), Earlier(b, c, sorts)
    PROVE  Earlier(a, c, sorts)
<1> DEFINE V(row, i) == Value(row, sorts[i].key)
           Same(x, y) == \A i \in DOMAIN sorts : V(x, i) = V(y, i)
           First(x, y, i) ==
               /\ i \in DOMAIN sorts /\ V(x, i) # V(y, i) /\ \A j \in 1 .. i - 1 : V(x, j) = V(y, j)
               /\ IF sorts[i].down THEN V(x, i) > V(y, i) ELSE V(x, i) < V(y, i)
<1>1. DOMAIN sorts = 1 .. Len(sorts) /\ Len(sorts) \in Nat
  OBVIOUS
<1>2. \A row \in {a, b, c}, i \in DOMAIN sorts : V(row, i) \in Int
  BY CriteriaAreRead
<1>3. a.r \in Int /\ b.r \in Int /\ c.r \in Int
  BY TableAssumption
<1>4. \A x, y : Earlier(x, y, sorts) <=> (\E i \in DOMAIN sorts : First(x, y, i)) \/ (x.r < y.r /\ Same(x, y))
  BY DEF Earlier
<1> HIDE DEF V
<1>5. CASE Same(a, b) /\ a.r < b.r /\ Same(b, c) /\ b.r < c.r
  <2>1. Same(a, c) /\ a.r < c.r
    BY <1>5, <1>3
  <2> QED BY <2>1, <1>4
<1>6. ASSUME NEW i \in DOMAIN sorts, First(a, b, i), Same(b, c) PROVE Earlier(a, c, sorts)
  <2>1. First(a, c, i)
    BY <1>6, <1>1
  <2> QED BY <2>1, <1>4
<1>7. ASSUME NEW i \in DOMAIN sorts, First(b, c, i), Same(a, b) PROVE Earlier(a, c, sorts)
  <2>1. First(a, c, i)
    BY <1>7, <1>1
  <2> QED BY <2>1, <1>4
<1>8. ASSUME NEW i \in DOMAIN sorts, NEW j \in DOMAIN sorts, First(a, b, i), First(b, c, j)
      PROVE  Earlier(a, c, sorts)
  <2>1. CASE i < j
    <3>1. First(a, c, i)
      <4>1. V(b, i) = V(c, i)
        BY <2>1, <1>1, <1>8
      <4>2. \A k \in 1 .. i - 1 : V(a, k) = V(c, k)
        BY <2>1, <1>1, <1>8
      <4> QED BY <4>1, <4>2, <1>8
    <3> QED BY <3>1, <1>4
  <2>2. CASE j < i
    <3>1. First(a, c, j)
      <4>1. V(a, j) = V(b, j)
        BY <2>2, <1>1, <1>8
      <4>2. \A k \in 1 .. j - 1 : V(a, k) = V(c, k)
        BY <2>2, <1>1, <1>8
      <4> QED BY <4>1, <4>2, <1>8
    <3> QED BY <3>1, <1>4
  <2>3. CASE i = j
    <3>1. \A k \in 1 .. i - 1 : V(a, k) = V(c, k)
      BY <2>3, <1>8
    <3>2. V(a, i) \in Int /\ V(b, i) \in Int /\ V(c, i) \in Int
      BY <1>2
    <3>3. V(a, i) # V(c, i) /\ IF sorts[i].down THEN V(a, i) > V(c, i) ELSE V(a, i) < V(c, i)
      BY <3>2, <1>8, <2>3
    <3> QED BY <3>1, <3>3, <1>4
  <2> QED BY <2>1, <2>2, <2>3, <1>1
<1> QED BY <1>4, <1>5, <1>6, <1>7, <1>8

(* The table lists every row found once, each before those it is earlier     *)
(* than.                                                                     *)
LEMMA SortedFacts ==
    ASSUME NEW found, IsFiniteSet(found), NamedApart(found), NEW sorts \in Seq(Criteria)
    PROVE  LET s == SortedBy(found, sorts) IN
           /\ s \in [1 .. Cardinality(found) -> found] /\ Cardinality(found) \in Nat
           /\ \A i, j \in 1 .. Cardinality(found) : i < j => Earlier(s[i], s[j], sorts) /\ s[i] # s[j]
<1> DEFINE L == {p \in found \X found : Earlier(p[1], p[2], sorts)}
           n == Cardinality(found)
           Good(s) == \A i, j \in DOMAIN s : i < j => Earlier(s[i], s[j], sorts)
<1>1. found \in SUBSET RankedRows /\ \A a, b \in found : a # b => a.r # b.r
  BY DEF NamedApart
<1>2. \A a, b \in found : <<a, b>> \in L <=> Earlier(a, b, sorts)
  OBVIOUS
<1>3. /\ \A a \in found : <<a, a>> \notin L
      /\ \A a, b \in found : a # b => <<a, b>> \in L \/ <<b, a>> \in L
      /\ \A a, b, c \in found : <<a, b>> \in L /\ <<b, c>> \in L => <<a, c>> \in L
  <2> HIDE DEF L
  <2>1. \A a \in found : <<a, a>> \notin L
    BY <1>1, <1>2, EarlierTellsApart
  <2>2. \A a, b \in found : a # b => <<a, b>> \in L \/ <<b, a>> \in L
    BY <1>1, <1>2, EarlierIsTotal
  <2>3. \A a, b, c \in found : <<a, b>> \in L /\ <<b, c>> \in L => <<a, c>> \in L
    BY <1>1, <1>2, EarlierIsTransitive
  <2> QED BY <2>1, <2>2, <2>3
<1>4. PICK s \in [1 .. n -> found] : \A i, j \in DOMAIN s : i < j => <<s[i], s[j]>> \in L
  <2> HIDE DEF L
  <2> QED BY <1>3, CanBeListed
<1>5. Good(s)
  BY <1>4, <1>2
<1>6. SortedBy(found, sorts) \in [1 .. n -> found] /\ Good(SortedBy(found, sorts))
  BY <1>5 DEF SortedBy
<1>7. n \in Nat
  BY FS_CardinalityType
<1> DEFINE t == SortedBy(found, sorts)
<1> HIDE DEF t
<1>8. t \in [1 .. n -> found] /\ Good(t)
  BY <1>6 DEF t
<1>9. \A i, j \in 1 .. n : i < j => Earlier(t[i], t[j], sorts) /\ t[i] # t[j]
  BY <1>8, <1>1, EarlierTellsApart
<1> QED BY <1>7, <1>8, <1>9 DEF t

---------------------------------------------------------------------------
(* Pages. *)
Found(rows, search) == {row \in Range(rows) : row.r \in search}

LEMMA RankingFacts ==
    ASSUME NEW rows \in Rankings, NEW search
    PROVE  /\ Found(rows, search) \subseteq RankedRows /\ IsFiniteSet(Found(rows, search)) /\ NamedApart(Found(rows, search))
           /\ Range(rows) \subseteq RankedRows /\ \A a, b \in Range(rows) : a.r = b.r => a = b
<1>1. rows \in Seq(RankedRows) /\ IsInjective([i \in DOMAIN rows |-> rows[i].r])
  BY TableAssumption
<1>2. Range(rows) \subseteq RankedRows
  BY DEF RankedRows
<1>3. \A a, b \in Range(rows) : a.r = b.r => a = b
  BY <1>1 DEF Range, IsInjective
<1>4. IsFiniteSet(Range(rows))
  <2>1. DOMAIN rows = 1 .. Len(rows) /\ Len(rows) \in Nat
    BY <1>1
  <2>2. IsFiniteSet(DOMAIN rows)
    BY <2>1, FS_Interval
  <2>3. rows \in Surjection(DOMAIN rows, Range(rows))
    BY <1>1 DEF Surjection, Range
  <2> QED BY <2>2, <2>3, FS_Surjection
<1>5. Found(rows, search) \in SUBSET Range(rows)
  BY DEF Found
<1>6. IsFiniteSet(Found(rows, search))
  BY <1>4, <1>5, FS_Subset
<1> QED BY <1>2, <1>3, <1>5, <1>6 DEF NamedApart

LEMMA LesserOfTwo == \A a, b \in Int : Min({a, b}) = IF a <= b THEN a ELSE b
BY DEF Min

LEMMA GreaterOfTwo == \A a, b \in Int : Max({a, b}) = IF a <= b THEN b ELSE a
BY DEF Max

(* A page is the cut of the sorted rows. *)
LEMMA PageFacts ==
    ASSUME NEW rows \in Rankings, NEW search, NEW sorts \in Seq(Criteria), NEW offset \in Nat
    PROVE  LET s == SortedBy(Found(rows, search), sorts)
               n == Cardinality(Found(rows, search))
               cut == SubSeq(s, offset + 1, Min({offset + PageSize, Len(s)}))
               size == IF offset >= n THEN 0 ELSE IF offset + PageSize <= n THEN PageSize ELSE n - offset
           IN  /\ Len(s) = n /\ n \in Nat /\ cut \in Seq(RankedRows) /\ Len(cut) = size
               /\ \A i \in 1 .. size : cut[i] = s[offset + i]
<1> DEFINE found == Found(rows, search)
           s == SortedBy(found, sorts)
           n == Cardinality(found)
           till == Min({offset + PageSize, Len(s)})
           cut == SubSeq(s, offset + 1, till)
           size == IF offset >= n THEN 0 ELSE IF offset + PageSize <= n THEN PageSize ELSE n - offset
<1>1. IsFiniteSet(found) /\ NamedApart(found) /\ found \subseteq RankedRows
  BY RankingFacts
<1>2. s \in [1 .. n -> found] /\ n \in Nat
  <2> HIDE DEF found
  <2> QED BY <1>1, SortedFacts
<1>3. PageSize \in Nat \ {0}
  BY TableAssumption
<1> HIDE DEF s, n, found
<1>4. s \in Seq(RankedRows) /\ Len(s) = n
  BY <1>1, <1>2
<1>5. till = IF offset + PageSize <= n THEN offset + PageSize ELSE n
  BY <1>2, <1>3, <1>4, LesserOfTwo
<1>6. till \in Nat /\ till <= n
  BY <1>5, <1>2, <1>3
<1> HIDE DEF till
<1>7. cut \in Seq(RankedRows) /\ Len(cut) = (IF offset + 1 <= till THEN till - (offset + 1) + 1 ELSE 0)
  <2>1. \A i \in offset + 1 .. till : i \in 1 .. Len(s)
    BY <1>4, <1>6
  <2> QED BY <1>4, <1>6, <2>1, SubSeqProperties
<1>8. \A i \in 1 .. Len(cut) : cut[i] = s[offset + i]
  <2>1. \A i \in 1 .. Len(cut) : cut[i] = s[(offset + 1) + i - 1]
    BY <1>4, <1>6, <1>7, SubSeqProperties
  <2>2. \A i \in 1 .. Len(cut) : (offset + 1) + i - 1 = offset + i
    BY <1>7
  <2> QED BY <2>1, <2>2
<1>9. Len(cut) = size
  BY <1>7, <1>5, <1>2, <1>3
<1>10. /\ Len(s) = n /\ n \in Nat /\ cut \in Seq(RankedRows) /\ Len(cut) = size
       /\ \A i \in 1 .. size : cut[i] = s[offset + i]
  <2> HIDE DEF cut, size
  <2> QED BY <1>2, <1>4, <1>7, <1>8, <1>9
<1> QED BY <1>10 DEF s, n, found, till

LEMMA NamesCount ==
    ASSUME NEW S, IsFiniteSet(S), NamedApart(S)
    PROVE  Cardinality({row.r : row \in S}) = Cardinality(S)
<1> DEFINE T == {row.r : row \in S}
           f == [row \in S |-> row.r]
<1>1. f \in [S -> T] /\ \A a, b \in S : f[a] = f[b] => a = b
  BY DEF NamedApart
<1>2. \A t \in T : \E a \in S : f[a] = t
  OBVIOUS
<1>3. f \in Bijection(S, T)
  BY <1>1, <1>2 DEF Bijection, Injection, IsInjective, Surjection
<1>4. ExistsBijection(S, T)
  BY <1>3 DEF ExistsBijection
<1> QED BY <1>4, FS_Bijection

Cut(rows, search, sorts, offset) ==
    SubSeq(SortedBy(Found(rows, search), sorts), offset + 1,
           Min({offset + PageSize, Len(SortedBy(Found(rows, search), sorts))}))

LEMMA CutIsExact ==
    ASSUME NEW rows \in Rankings, NEW search, NEW sorts \in Seq(Criteria), NEW offset \in Nat
    PROVE  LET cut == Cut(rows, search, sorts, offset)
               found == {row.r : row \in Found(rows, search)}
               shown == {row.r : row \in Range(cut)}
           IN  /\ Range(cut) \subseteq Found(rows, search) /\ shown \subseteq found
               /\ Cardinality(found) = Len(SortedBy(Found(rows, search), sorts))
               /\ Cardinality(shown) = Min({PageSize, Max({0, Cardinality(found) - offset})})
               /\ offset = 0 => \A a \in Range(cut), b \in Found(rows, search) :
                                    b.r \notin shown => Earlier(a, b, sorts)
<1> DEFINE F == Found(rows, search)
           s == SortedBy(F, sorts)
           cut == Cut(rows, search, sorts, offset)
           n == Cardinality(F)
           size == IF offset >= n THEN 0 ELSE IF offset + PageSize <= n THEN PageSize ELSE n - offset
<1>1. IsFiniteSet(F) /\ NamedApart(F) /\ F \subseteq RankedRows
  BY RankingFacts
<1>2. /\ s \in [1 .. n -> F] /\ n \in Nat
      /\ \A i, j \in 1 .. n : i < j => Earlier(s[i], s[j], sorts) /\ s[i] # s[j]
  <2> HIDE DEF F
  <2> QED BY <1>1, SortedFacts
<1>3. PageSize \in Nat \ {0}
  BY TableAssumption
<1>4. Len(s) = n /\ cut \in Seq(RankedRows) /\ Len(cut) = size /\ \A i \in 1 .. size : cut[i] = s[offset + i]
  BY PageFacts DEF Cut
<1> HIDE DEF cut
<1>5. \A row : row \in Range(cut) <=> \E i \in 1 .. size : row = s[offset + i]
  <2>1. DOMAIN cut = 1 .. size
    BY <1>4
  <2> HIDE DEF size, s
  <2> QED BY <2>1, <1>4 DEF Range
<1> HIDE DEF s, n, F
<1>6. \A i \in 1 .. size : offset + i \in 1 .. n
  BY <1>2, <1>3
<1>7. size \in Nat
  BY <1>2, <1>3
<1>8. Range(cut) \subseteq F
  <2> SUFFICES ASSUME NEW row \in Range(cut) PROVE row \in F
    OBVIOUS
  <2> HIDE DEF size
  <2>1. PICK i \in 1 .. size : row = s[offset + i]
    BY <1>5
  <2>2. offset + i \in 1 .. n
    BY <1>6
  <2> QED BY <2>1, <2>2, <1>2
<1>9. IsFiniteSet(Range(cut)) /\ NamedApart(Range(cut))
  <2>1. IsFiniteSet(Range(cut))
    BY <1>8, <1>1, FS_Subset
  <2> QED BY <2>1, <1>8, <1>1 DEF NamedApart
<1>10. Cardinality(Range(cut)) = size
  <2> DEFINE g == [i \in 1 .. size |-> s[offset + i]]
  <2>1. g \in [1 .. size -> Range(cut)] /\ \A row \in Range(cut) : \E i \in 1 .. size : g[i] = row
    BY <1>5
  <2>2. \A i, j \in 1 .. size : g[i] = g[j] => i = j
    <3> SUFFICES ASSUME NEW i \in 1 .. size, NEW j \in 1 .. size, i # j PROVE s[offset + i] # s[offset + j]
      OBVIOUS
    <3>1. i \in Nat /\ j \in Nat
      BY <1>7
    <3>2. offset + i \in 1 .. n /\ offset + j \in 1 .. n
      BY <1>6
    <3>3. offset + i < offset + j \/ offset + j < offset + i
      BY <3>1
    <3> HIDE DEF size
    <3> QED BY <3>2, <3>3, <1>2
  <2>3. g \in Bijection(1 .. size, Range(cut))
    BY <2>1, <2>2, Zenon DEF Bijection, Injection, IsInjective, Surjection
  <2>4. ExistsBijection(1 .. size, Range(cut))
    BY <2>3 DEF ExistsBijection
  <2> HIDE DEF size, g
  <2>5. IsFiniteSet(1 .. size) /\ Cardinality(1 .. size) = size
    BY <1>7, FS_Interval
  <2> QED BY <2>4, <2>5, FS_Bijection
<1> DEFINE found == {row.r : row \in F}
           shown == {row.r : row \in Range(cut)}
<1>11. Cardinality(found) = n /\ Cardinality(shown) = size
  <2>1. Cardinality(found) = n
    BY <1>1, NamesCount DEF n
  <2> HIDE DEF size
  <2>2. Cardinality(shown) = size
    BY <1>9, <1>10, NamesCount
  <2> QED BY <2>1, <2>2
<1>12. shown \subseteq found
  BY <1>8
<1>13. size = Min({PageSize, Max({0, n - offset})})
  <2>1. Max({0, n - offset}) = IF 0 <= n - offset THEN n - offset ELSE 0
    BY <1>2, GreaterOfTwo
  <2>2. Max({0, n - offset}) \in Int
    BY <2>1, <1>2
  <2> DEFINE m == Max({0, n - offset})
  <2> HIDE DEF m
  <2>3. Min({PageSize, m}) = IF PageSize <= m THEN PageSize ELSE m
    <3>1. m \in Int /\ PageSize \in Int
      BY <2>2, <1>3 DEF m
    <3> QED BY <3>1, LesserOfTwo
  <2>4. size = Min({PageSize, m})
    BY <2>1, <2>3, <1>2, <1>3 DEF m
  <2> QED BY <2>4 DEF m
<1>14. ASSUME offset = 0, NEW a \in Range(cut), NEW b \in F, b.r \notin shown PROVE Earlier(a, b, sorts)
  <2>1. PICK i \in 1 .. size : a = s[i]
    <3>1. \A i \in 1 .. size : offset + i = i
      BY <1>7, <1>14
    <3> QED BY <3>1, <1>5
  <2>2. PICK j \in 1 .. n : b = s[j]
    <3>1. s \in Surjection(1 .. n, F)
      <4>1. s \in Injection(1 .. n, F)
        <5>1. \A x, y \in 1 .. n : s[x] = s[y] => x = y
          <6> SUFFICES ASSUME NEW x \in 1 .. n, NEW y \in 1 .. n, x # y PROVE s[x] # s[y]
            OBVIOUS
          <6>1. x < y \/ y < x
            BY <1>2
          <6> QED BY <6>1, <1>2
        <5> QED BY <5>1, <1>2 DEF Injection, IsInjective
      <4>2. Cardinality(1 .. n) = Cardinality(F) /\ IsFiniteSet(F)
        <5>1. Cardinality(1 .. n) = n
          BY <1>2, FS_Interval
        <5> QED BY <5>1, <1>1 DEF n
      <4> QED BY <4>1, <4>2, FS_Injection
    <3> QED BY <3>1 DEF Surjection
  <2>3. j \notin 1 .. size
    <3> SUFFICES ASSUME j \in 1 .. size PROVE FALSE
      OBVIOUS
    <3>1. offset + j = j
      BY <1>14, <1>2
    <3>2. b \in Range(cut)
      BY <3>1, <2>2, <1>5
    <3> QED BY <3>2, <1>14
  <2>4. i < j /\ i \in 1 .. n
    BY <2>1, <2>2, <2>3, <1>2, <1>3, <1>7, <1>6
  <2> QED BY <2>1, <2>2, <2>4, <1>2
<1>15. Len(s) = n
  BY <1>4 DEF s, n, F
<1>16. Cardinality(shown) = Min({PageSize, Max({0, Cardinality(found) - offset})})
  <2> HIDE DEF size, shown, found
  <2> QED BY <1>11, <1>13
<1>17. Cardinality(found) = Len(s)
  <2> HIDE DEF shown, found
  <2> QED BY <1>11, <1>15
<1> QED BY <1>8, <1>12, <1>14, <1>16, <1>17 DEF F, s, cut

---------------------------------------------------------------------------
(* The criteria: a click keeps every column at most once, so that the        *)
(* extension never refuses the criteria of a table.                          *)
LEMMA SortsAre ==
    \A s : s \in Sorts <=> s \in Seq(Criteria) /\ \A i, j \in 1 .. Len(s) : s[i].key = s[j].key => i = j
<1> TAKE s
<1>1. ASSUME s \in Seq(Criteria)
      PROVE  IsInjective([i \in DOMAIN s |-> s[i].key])
                 <=> \A i, j \in 1 .. Len(s) : s[i].key = s[j].key => i = j
  BY <1>1 DEF IsInjective
<1> QED BY <1>1 DEF Sorts

LEMMA SortsAreValid ==
    ASSUME NEW s \in Sorts
    PROVE  ValidSorts(s)
<1> DEFINE keys == [i \in DOMAIN s |-> s[i].key]
<1>1. s \in Seq(Criteria) /\ IsInjective(keys)
  BY DEF Sorts
<1>2. DOMAIN s = 1 .. Len(s) /\ Len(s) \in Nat
  BY <1>1
<1>3. keys \in [1 .. Len(s) -> SortColumns]
  <2>1. \A i \in 1 .. Len(s) : s[i] \in Criteria
    BY <1>1, <1>2
  <2>2. \A i \in 1 .. Len(s) : s[i].key \in SortColumns
    BY <2>1 DEF Criteria
  <2> QED BY <2>2, <1>2
<1>4. keys \in Injection(1 .. Len(s), SortColumns)
  BY <1>1, <1>3 DEF Injection
<1>5. IsFiniteSet(SortColumns)
  BY TableAssumption
<1> HIDE DEF keys
<1>6. Cardinality(1 .. Len(s)) <= Cardinality(SortColumns)
  BY <1>4, <1>5, FS_Injection
<1>7. Cardinality(1 .. Len(s)) = Len(s)
  <2> DEFINE n == Len(s)
  <2>1. n \in Nat
    BY <1>2
  <2> HIDE DEF n
  <2>2. Cardinality(1 .. n) = n
    BY <2>1, FS_Interval
  <2> QED BY <2>2 DEF n
<1> QED BY <1>1, <1>6, <1>7 DEF ValidSorts, keys

LEMMA ClickedColumn ==
    ASSUME NEW s \in Seq(Criteria), NEW key, NEW at, at = SelectInSeq(s, LAMBDA c : c.key = key)
    PROVE  /\ at \in 0 .. Len(s)
           /\ at = 0 => \A i \in 1 .. Len(s) : s[i].key # key
           /\ at # 0 => s[at].key = key
<1> DEFINE I == {i \in 1 .. Len(s) : s[i].key = key}
<1>1. at = IF I # {} THEN Min(I) ELSE 0
  BY DEF SelectInSeq
<1>2. CASE I = {}
  BY <1>1, <1>2
<1>3. CASE I # {}
  <2>1. I \in SUBSET Nat
    OBVIOUS
  <2>2. \E m \in I : \A n \in I : m <= n
    <3> HIDE DEF I
    <3> QED BY <1>3, <2>1, LeastOf
  <2>3. Min(I) \in I
    <3> HIDE DEF I
    <3> QED BY <2>2 DEF Min
  <2> QED BY <1>1, <1>3, <2>3
<1> QED BY <1>2, <1>3

LEMMA CriterionMade ==
    /\ \A key \in SortColumns, down \in BOOLEAN : [key |-> key, down |-> down] \in Criteria
    /\ \A c \in Criteria, first \in BOOLEAN : Turned(c, first) \in Criteria /\ Turned(c, first).key = c.key
BY DEF Criteria, Turned

LEMMA ToggleKeepsSorts ==
    ASSUME NEW s \in Sorts, NEW key \in SortColumns, NEW first \in BOOLEAN, NEW append \in BOOLEAN
    PROVE  ToggleSort(s, key, first, append) \in Sorts
<1> DEFINE at == SelectInSeq(s, LAMBDA c : c.key = key)
           fresh == [key |-> key, down |-> first]
<1>1. s \in Seq(Criteria) /\ \A i, j \in 1 .. Len(s) : s[i].key = s[j].key => i = j
  BY SortsAre
<1>2. /\ at \in 0 .. Len(s)
      /\ at = 0 => \A i \in 1 .. Len(s) : s[i].key # key
      /\ at # 0 => s[at].key = key
  BY <1>1, ClickedColumn
<1>3. fresh \in Criteria /\ fresh.key = key
  BY CriterionMade
<1>4. \A c \in Criteria : <<c>> \in Sorts
  <2> TAKE c \in Criteria
  <2>1. <<c>> \in Seq(Criteria) /\ Len(<<c>>) = 1
    OBVIOUS
  <2>2. \A i, j \in 1 .. Len(<<c>>) : i = j
    BY <2>1
  <2> QED BY <2>1, <2>2, SortsAre
<1>5. \A i \in 1 .. Len(s) : s[i] \in Criteria /\ Turned(s[i], first) \in Criteria /\ Turned(s[i], first).key = s[i].key
  BY <1>1, CriterionMade
<1> DEFINE next == ToggleSort(s, key, first, append)
<1>6. next = IF at = 0 THEN IF append THEN Append(s, fresh) ELSE <<fresh>>
             ELSE IF ~append THEN IF at = 1 /\ s[1].down = first THEN <<Turned(s[1], first)>> ELSE <<fresh>>
             ELSE IF s[at].down = first THEN ReplaceAt(s, at, Turned(s[at], first))
             ELSE RemoveAt(s, at)
  BY DEF ToggleSort
<1> HIDE DEF at, fresh, next
<1>7. ASSUME at = 0 PROVE Append(s, fresh) \in Sorts
  <2> DEFINE a == Append(s, fresh)
  <2>1. a \in Seq(Criteria) /\ Len(a) = Len(s) + 1 /\ a[Len(s) + 1] = fresh /\ \A i \in 1 .. Len(s) : a[i] = s[i]
    BY <1>1, <1>3
  <2> HIDE DEF a
  <2>2. \A i, j \in 1 .. Len(a) : a[i].key = a[j].key => i = j
    BY <2>1, <1>1, <1>2, <1>3, <1>7
  <2>3. a \in Sorts
    BY <2>1, <2>2, SortsAre
  <2> QED BY <2>3 DEF a
<1>8. ASSUME at # 0 PROVE ReplaceAt(s, at, Turned(s[at], first)) \in Sorts
  <2> DEFINE c == Turned(s[at], first)
             a == ReplaceAt(s, at, c)
  <2>1. at \in 1 .. Len(s) /\ c \in Criteria /\ c.key = s[at].key
    BY <1>8, <1>2, <1>5
  <2> HIDE DEF c
  <2>2. a \in Seq(Criteria) /\ Len(a) = Len(s) /\ \A i \in 1 .. Len(s) : a[i] = IF i = at THEN c ELSE s[i]
    BY <1>1, <2>1 DEF ReplaceAt
  <2> HIDE DEF a
  <2>3. \A i \in 1 .. Len(a) : a[i].key = s[i].key
    BY <2>1, <2>2
  <2>4. \A i, j \in 1 .. Len(a) : a[i].key = a[j].key => i = j
    BY <2>2, <2>3, <1>1
  <2>5. a \in Sorts
    BY <2>2, <2>4, SortsAre
  <2> QED BY <2>5 DEF a, c
<1>9. ASSUME at # 0 PROVE RemoveAt(s, at) \in Sorts
  <2> DEFINE b == SubSeq(s, 1, at - 1)
             e == SubSeq(s, at + 1, Len(s))
             a == b \o e
  <2>1. at \in 1 .. Len(s) /\ Len(s) \in Nat
    BY <1>9, <1>2, <1>1
  <2>2. b \in Seq(Criteria) /\ Len(b) = at - 1 /\ \A i \in 1 .. at - 1 : b[i] = s[i]
    BY <2>1, <1>1
  <2>3. e \in Seq(Criteria) /\ Len(e) = Len(s) - at /\ \A i \in 1 .. Len(s) - at : e[i] = s[at + i]
    <3>1. \A i \in at + 1 .. Len(s) : s[i] \in Criteria
      BY <2>1, <1>1
    <3>2. e \in Seq(Criteria) /\ Len(e) = IF at + 1 <= Len(s) THEN Len(s) - (at + 1) + 1 ELSE 0
      BY <3>1, <2>1, SubSeqProperties
    <3>3. \A i \in 1 .. Len(s) - (at + 1) + 1 : e[i] = s[(at + 1) + i - 1]
      BY <3>1, <2>1, SubSeqProperties
    <3>4. Len(s) - (at + 1) + 1 = Len(s) - at /\ \A i \in 1 .. Len(s) - at : (at + 1) + i - 1 = at + i
      BY <2>1
    <3> HIDE DEF e
    <3>5. \A i \in 1 .. Len(s) - at : e[i] = s[at + i]
      BY <3>3, <3>4
    <3>6. Len(e) = Len(s) - at
      BY <3>2, <2>1
    <3> QED BY <3>2, <3>5, <3>6
  <2> HIDE DEF b, e
  <2>4. /\ a \in Seq(Criteria) /\ Len(a) = Len(s) - 1
        /\ \A i \in 1 .. Len(a) : a[i] = IF i < at THEN b[i] ELSE e[i - (at - 1)]
    <3>1. a \in Seq(Criteria) /\ Len(a) = Len(b) + Len(e)
      BY <2>2, <2>3
    <3>2. Len(a) = Len(s) - 1
      BY <3>1, <2>1, <2>2, <2>3
    <3>3. \A i \in 1 .. Len(b) + Len(e) : a[i] = IF i <= Len(b) THEN b[i] ELSE e[i - Len(b)]
      BY <2>2, <2>3, ConcatProperties
    <3> HIDE DEF a
    <3> QED BY <3>1, <3>2, <3>3, <2>1, <2>2
  <2> HIDE DEF a
  <2>5. \A i \in 1 .. Len(a) : a[i] = IF i < at THEN s[i] ELSE s[i + 1]
    <3> TAKE i \in 1 .. Len(a)
    <3>1. CASE i < at
      BY <3>1, <2>1, <2>2, <2>4
    <3>2. CASE ~ (i < at)
      <4>1. i - (at - 1) \in 1 .. Len(s) - at /\ at + (i - (at - 1)) = i + 1
        BY <3>2, <2>1, <2>4
      <4> QED BY <4>1, <3>2, <2>3, <2>4
    <3> QED BY <3>1, <3>2
  <2>6. \A i, j \in 1 .. Len(a) : a[i].key = a[j].key => i = j
    <3> SUFFICES ASSUME NEW i \in 1 .. Len(a), NEW j \in 1 .. Len(a), a[i].key = a[j].key PROVE i = j
      OBVIOUS
    <3> DEFINE Old(k) == IF k < at THEN k ELSE k + 1
    <3>1. \A k \in 1 .. Len(a) : Old(k) \in 1 .. Len(s) /\ a[k] = s[Old(k)]
      BY <2>1, <2>4, <2>5
    <3>2. Old(i) = Old(j)
      <4> HIDE DEF Old
      <4> QED BY <3>1, <1>1
    <3>3. i \in Nat /\ j \in Nat
      BY <2>4
    <3> QED BY <3>2, <3>3, <2>1
  <2>7. a \in Sorts
    BY <2>4, <2>6, SortsAre
  <2> QED BY <2>7 DEF a, b, e, RemoveAt
<1>10. ASSUME at = 1 PROVE Turned(s[1], first) \in Criteria
  BY <1>10, <1>2, <1>5
<1>11. next \in Sorts
  BY <1>3, <1>4, <1>6, <1>7, <1>8, <1>9, <1>10
<1> QED BY <1>11 DEF next

---------------------------------------------------------------------------
(* What is under way is of the projection in force or of an earlier one and  *)
(* no later than the last request; only that one counts, and it asks for     *)
(* what the fields say. What was answered about the ranking in force is      *)
(* its page. Until the table shows what its fields say, an answer is to come *)
(* or a timer is to ask for it.                                              *)
RequestSet ==
    [seq : Nat, projection : Nat, search : SUBSET Int, sorts : Sorts, offset : Nat,
     served : BOOLEAN, page : Pages \union {None}]
TableSet ==
    [projection : Nat \union {None}, search : SUBSET Int, sorts : Sorts, offset : Nat, seq : Nat,
     page : Pages \union {None}, error : BOOLEAN]
SameAsk(x, y) == x.projection = y.projection /\ x.search = y.search /\ x.sorts = y.sorts /\ x.offset = y.offset

InForce(id) == ranked.rows # None /\ id = ranked.id
RequestIsOrderly(q) ==
    /\ q.seq <= table.seq /\ q.projection <= ranked.id
    /\ q.page # None => q.page.projection = q.projection
    /\ q.served /\ InForce(q.projection) => q.page = RunnerPage(ranked.rows, q)
    /\ q.seq = table.seq => SameAsk(q, table)
Awaited == debounce # None \/ \E q \in requests : q.seq = table.seq
TableTypeOK ==
    /\ ranked \in [id : Nat, rows : Rankings \union {None}]
    /\ table \in TableSet /\ requests \in SUBSET RequestSet /\ debounce \in {None, table.seq}
TableInv ==
    /\ TableTypeOK
    /\ table.projection # None => table.projection <= ranked.id
    /\ table.page # None => table.projection # None /\ table.page.projection = table.projection
    /\ \A q \in requests : RequestIsOrderly(q)
    /\ InForce(table.projection) =>
         Awaited \/ (~table.error /\ table.page = RunnerPage(ranked.rows, table))

LEMMA PageOfRequest ==
    ASSUME NEW rows \in Rankings, NEW q, q.projection \in Nat, q.search \in SUBSET Int, q.sorts \in Sorts,
           q.offset \in Nat
    PROVE  /\ RunnerPage(rows, q) \in Pages /\ RunnerPage(rows, q) # None
           /\ RunnerPage(rows, q).projection = q.projection
<1> DEFINE s == SortedBy(Found(rows, q.search), q.sorts)
           cut == SubSeq(s, q.offset + 1, Min({q.offset + PageSize, Len(s)}))
           p == [projection |-> q.projection, search |-> q.search, sorts |-> q.sorts, offset |-> q.offset,
                 matched |-> Len(s), rows |-> cut]
<1>1. RunnerPage(rows, q) = p
  BY DEF RunnerPage, Found
<1>2. q.sorts \in Seq(Criteria)
  BY DEF Sorts
<1>3. Len(s) \in Nat /\ cut \in Seq(RankedRows)
  BY <1>2, PageFacts, ZenonT(60)
<1> HIDE DEF s, cut
<1>4. p \in Pages /\ p.projection = q.projection
  BY <1>2, <1>3 DEF Pages
<1> HIDE DEF p
<1>5. p # None
  BY <1>4, TableAssumption
<1> QED BY <1>1, <1>4, <1>5

LEMMA SameAskSamePage ==
    ASSUME NEW rows, NEW x, NEW y, SameAsk(x, y)
    PROVE  RunnerPage(rows, x) = RunnerPage(rows, y)
BY DEF SameAsk, RunnerPage

LEMMA AskedIs ==
    ASSUME NEW t \in TableSet, t.projection # None
    PROVE  /\ Asked(t) \in RequestSet /\ SameAsk(Asked(t), t) /\ Asked(t).seq = t.seq
           /\ Asked(t).served = FALSE /\ Asked(t).page = None /\ Asked(t).projection = t.projection
BY DEF Asked, TableSet, RequestSet, SameAsk

LEMMA NextSeq ==
    ASSUME NEW t \in TableSet, NEW t1, t1 = [t EXCEPT !.seq = @ + 1]
    PROVE  /\ t1 \in TableSet /\ t1.seq = t.seq + 1 /\ SameAsk(t1, t)
           /\ t1.page = t.page /\ t1.error = t.error /\ t1.projection = t.projection
BY DEF TableSet, SameAsk

(* The requests there are stay in order when the table asks anew: they are   *)
(* of an earlier number.                                                     *)
LEMMA OthersAreEarlier ==
    ASSUME TableTypeOK, \A q \in requests : RequestIsOrderly(q), UNCHANGED ranked,
           table'.seq = table.seq + 1, NEW q \in requests
    PROVE  RequestIsOrderly(q)'
<1>1. table.seq \in Nat /\ q.seq \in Nat
  BY DEF TableTypeOK, TableSet, RequestSet
<1>2. RequestIsOrderly(q)
  OBVIOUS
<1> QED BY <1>1, <1>2 DEF RequestIsOrderly, InForce, RunnerPage

(* A table that asks at once. *)
LEMMA NowKeepsInv ==
    ASSUME TableInv, NEW t \in TableSet, t.seq = table.seq, UNCHANGED ranked, RequestNow(t),
           t.projection # None => t.projection <= ranked.id,
           t.page # None => t.projection # None /\ t.page.projection = t.projection
    PROVE  TableInv'
<1> DEFINE t1 == [t EXCEPT !.seq = @ + 1]
<1>1. table' = t1 /\ debounce' = None
      /\ requests' = IF t.projection = None THEN requests ELSE requests \union {Asked(t1)}
  BY DEF RequestNow
<1>2. /\ t1 \in TableSet /\ t1.seq = table.seq + 1 /\ SameAsk(t1, t)
      /\ t1.page = t.page /\ t1.error = t.error /\ t1.projection = t.projection
  BY NextSeq
<1> HIDE DEF t1
<1>3. t.projection # None =>
        /\ Asked(t1) \in RequestSet /\ SameAsk(Asked(t1), t1) /\ Asked(t1).seq = t1.seq
        /\ Asked(t1).served = FALSE /\ Asked(t1).page = None /\ Asked(t1).projection = t1.projection
  BY <1>2, AskedIs
<1>4. TableTypeOK'
  BY <1>1, <1>2, <1>3 DEF TableInv, TableTypeOK
<1>5. table'.projection # None => table'.projection <= ranked'.id
  BY <1>1, <1>2
<1>6. table'.page # None => table'.projection # None /\ table'.page.projection = table'.projection
  BY <1>1, <1>2
<1>7. \A q \in requests' : RequestIsOrderly(q)'
  <2> TAKE q \in requests'
  <2>1. CASE q \in requests
    BY <2>1, <1>1, <1>2, OthersAreEarlier DEF TableInv
  <2>2. CASE q \notin requests
    <3>1. q = Asked(t1) /\ t.projection # None
      BY <2>2, <1>1
    <3>2. table'.seq \in Nat
      BY <1>1, <1>2 DEF TableSet
    <3> QED BY <3>1, <3>2, <1>1, <1>2, <1>3, <1>5 DEF RequestIsOrderly
  <2> QED BY <2>1, <2>2
<1>8. InForce(table.projection)' => Awaited'
  <2> SUFFICES ASSUME InForce(table.projection)' PROVE \E q \in requests' : q.seq = table'.seq
    BY DEF Awaited
  <2>1. t.projection # None
    <3>1. t.projection = ranked.id
      BY <1>1, <1>2 DEF InForce
    <3>2. ranked.id \in Nat
      BY DEF TableInv, TableTypeOK
    <3> QED BY <3>1, <3>2, TableAssumption
  <2> QED BY <2>1, <1>1, <1>3
<1> QED BY <1>4, <1>5, <1>6, <1>7, <1>8 DEF TableInv

(* A table that asks when the timer fires. *)
LEMMA LaterKeepsInv ==
    ASSUME TableInv, NEW t \in TableSet, t.seq = table.seq, UNCHANGED ranked, RequestLater(t),
           t.projection # None => t.projection <= ranked.id,
           t.page # None => t.projection # None /\ t.page.projection = t.projection
    PROVE  TableInv'
<1> DEFINE t1 == [t EXCEPT !.seq = @ + 1]
<1>1. table' = t1 /\ debounce' = t.seq + 1 /\ requests' = requests
  BY DEF RequestLater
<1>2. /\ t1 \in TableSet /\ t1.seq = table.seq + 1 /\ SameAsk(t1, t)
      /\ t1.page = t.page /\ t1.error = t.error /\ t1.projection = t.projection
  BY NextSeq
<1> HIDE DEF t1
<1>3. t1.seq \in Nat /\ debounce' = table'.seq /\ debounce' # None
  <2>1. t1.seq \in Nat
    BY <1>2 DEF TableSet
  <2> QED BY <2>1, <1>1, <1>2, TableAssumption
<1>4. TableTypeOK'
  BY <1>1, <1>2, <1>3 DEF TableInv, TableTypeOK
<1>5. table'.projection # None => table'.projection <= ranked'.id
  BY <1>1, <1>2
<1>6. table'.page # None => table'.projection # None /\ table'.page.projection = table'.projection
  BY <1>1, <1>2
<1>7. \A q \in requests' : RequestIsOrderly(q)'
  BY <1>1, <1>2, OthersAreEarlier DEF TableInv
<1>8. Awaited'
  BY <1>3 DEF Awaited
<1> QED BY <1>4, <1>5, <1>6, <1>7, <1>8 DEF TableInv

---------------------------------------------------------------------------
(* What each action makes of the table. *)
ShowsAnew(t, id) == [t EXCEPT !.projection = id, !.page = None, !.offset = 0, !.error = FALSE]

LEMMA ShownTable ==
    ASSUME NEW t \in TableSet, NEW id \in Nat
    PROVE  /\ ShowsAnew(t, id) \in TableSet /\ ShowsAnew(t, id).seq = t.seq
           /\ ShowsAnew(t, id).projection = id /\ ShowsAnew(t, id).page = None
<1> DEFINE u == ShowsAnew(t, id)
<1> HIDE DEF u
<1>1. u = [projection |-> id, search |-> t.search, sorts |-> t.sorts, offset |-> 0, seq |-> t.seq,
           page |-> None, error |-> FALSE]
  <2>1. ASSUME NEW r, r = [t EXCEPT !.projection = id, !.page = None, !.offset = 0, !.error = FALSE]
        PROVE  r = [projection |-> id, search |-> t.search, sorts |-> t.sorts, offset |-> 0, seq |-> t.seq,
                    page |-> None, error |-> FALSE]
    BY <2>1, Zenon DEF TableSet
  <2>2. u = [t EXCEPT !.projection = id, !.page = None, !.offset = 0, !.error = FALSE]
    BY DEF u, ShowsAnew
  <2> QED BY <2>1, <2>2, Zenon
<1>2. u.seq = t.seq /\ u.projection = id /\ u.page = None
  BY <1>1
<1>3. t.search \in SUBSET Int /\ t.sorts \in Sorts /\ t.seq \in Nat
      /\ id \in Nat \union {None} /\ 0 \in Nat /\ None \in Pages \union {None} /\ FALSE \in BOOLEAN
  BY DEF TableSet
<1>4. u \in TableSet
  <2> DEFINE P == Nat \union {None}
             Q == SUBSET Int
             R == Pages \union {None}
  <2>1. TableSet = [projection : P, search : Q, sorts : Sorts, offset : Nat, seq : Nat, page : R, error : BOOLEAN]
    BY DEF TableSet
  <2>2. id \in P /\ t.search \in Q /\ t.sorts \in Sorts /\ t.seq \in Nat /\ 0 \in Nat /\ None \in R
    BY <1>3
  <2> HIDE DEF P, Q, R
  <2> QED BY <1>1, <2>1, <2>2
<1> QED BY <1>2, <1>4 DEF u

LEMMA SearchedTable ==
    ASSUME NEW t \in TableSet, NEW search \in SUBSET Int, NEW u,
           u = [t EXCEPT !.search = search, !.offset = 0]
    PROVE  u \in TableSet /\ u.seq = t.seq /\ u.projection = t.projection /\ u.page = t.page
<1>1. u = [projection |-> t.projection, search |-> search, sorts |-> t.sorts, offset |-> 0, seq |-> t.seq,
           page |-> t.page, error |-> t.error]
  BY Zenon DEF TableSet
<1> QED BY <1>1 DEF TableSet

LEMMA SortedTable ==
    ASSUME NEW t \in TableSet, NEW sorts \in Sorts, NEW u,
           u = [t EXCEPT !.sorts = sorts, !.offset = 0]
    PROVE  u \in TableSet /\ u.seq = t.seq /\ u.projection = t.projection /\ u.page = t.page
<1>1. u = [projection |-> t.projection, search |-> t.search, sorts |-> sorts, offset |-> 0, seq |-> t.seq,
           page |-> t.page, error |-> t.error]
  BY Zenon DEF TableSet
<1> QED BY <1>1 DEF TableSet

LEMMA TurnedTable ==
    ASSUME NEW t \in TableSet, NEW offset \in Nat, NEW u, u = [t EXCEPT !.offset = offset]
    PROVE  u \in TableSet /\ u.seq = t.seq /\ u.projection = t.projection /\ u.page = t.page
BY DEF TableSet

Answered(t, page, error) == [t EXCEPT !.page = page, !.error = error]

LEMMA AnsweredTable ==
    ASSUME NEW t \in TableSet, NEW page \in Pages \union {None}, NEW error \in BOOLEAN
    PROVE  LET u == Answered(t, page, error) IN
           /\ u \in TableSet /\ u.seq = t.seq /\ u.projection = t.projection
           /\ u.page = page /\ u.error = error /\ SameAsk(u, t)
<1> DEFINE u == Answered(t, page, error)
<1>1. ASSUME NEW r, r = [t EXCEPT !.page = page, !.error = error]
      PROVE  r = [projection |-> t.projection, search |-> t.search, sorts |-> t.sorts, offset |-> t.offset,
                  seq |-> t.seq, page |-> page, error |-> error]
  BY <1>1, Zenon DEF TableSet
<1>2. u = [t EXCEPT !.page = page, !.error = error]
  BY DEF Answered
<1> HIDE DEF u
<1>3. u = [projection |-> t.projection, search |-> t.search, sorts |-> t.sorts, offset |-> t.offset,
           seq |-> t.seq, page |-> page, error |-> error]
  BY <1>1, <1>2, Zenon
<1>4. /\ u.seq = t.seq /\ u.projection = t.projection
      /\ u.page = page /\ u.error = error /\ SameAsk(u, t)
  BY <1>3 DEF SameAsk
<1>5. u \in TableSet
  BY <1>3 DEF TableSet
<1> QED BY <1>4, <1>5 DEF u

LEMMA ServedRequest ==
    ASSUME NEW q \in RequestSet, NEW page \in Pages \union {None}, NEW u,
           u = [q EXCEPT !.served = TRUE, !.page = page]
    PROVE  /\ u \in RequestSet /\ u.seq = q.seq /\ u.projection = q.projection
           /\ u.page = page /\ u.served = TRUE /\ SameAsk(u, q)
<1>1. u = [seq |-> q.seq, projection |-> q.projection, search |-> q.search, sorts |-> q.sorts, offset |-> q.offset,
           served |-> TRUE, page |-> page]
  BY Zenon DEF RequestSet
<1> QED BY <1>1 DEF RequestSet, SameAsk

LEMMA NamesAreNumbers == Everyone \in SUBSET Int /\ \A needle \in Needles : needle \in SUBSET Int
BY TableAssumption DEF Everyone

LEMMA TableAsIs ==
    ASSUME TableInv
    PROVE  /\ table \in TableSet /\ ranked.id \in Nat
           /\ table.projection # None => table.projection \in Nat /\ table.projection <= ranked.id
           /\ table.page # None => table.projection # None /\ table.page.projection = table.projection
           /\ table.sorts \in Sorts /\ table.offset \in Nat /\ table.seq \in Nat
BY DEF TableInv, TableTypeOK, TableSet

---------------------------------------------------------------------------
(* Every action. *)
LEMMA ShowKeepsInv == TableInv /\ ShowProjection => TableInv'
<1> SUFFICES ASSUME TableInv, ShowProjection PROVE TableInv'
  OBVIOUS
<1>1. PICK id \in (IF OnScreen THEN table.projection + 1 ELSE 1) .. ranked.id :
         RequestNow([table EXCEPT !.projection = id, !.page = None, !.offset = 0, !.error = FALSE])
  BY DEF ShowProjection
<1>2. UNCHANGED ranked
  BY DEF ShowProjection, Acts
<1>3. id \in Nat /\ id <= ranked.id
  BY TableAsIs DEF OnScreen
<1> DEFINE t == ShowsAnew(table, id)
<1>4. t \in TableSet /\ t.seq = table.seq /\ t.projection = id /\ t.page = None
  <2>1. table \in TableSet /\ id \in Nat
    BY <1>3, TableAsIs
  <2> QED BY <2>1, ShownTable
<1>5. RequestNow(t)
  BY <1>1, Zenon DEF ShowsAnew
<1> HIDE DEF t
<1> QED BY <1>2, <1>3, <1>4, <1>5, NowKeepsInv

LEMMA SearchKeepsInv ==
    ASSUME TableInv, NEW needle \in Needles, SearchFor(needle)
    PROVE  TableInv'
<1> DEFINE t == [table EXCEPT !.search = needle, !.offset = 0]
<1>1. t \in TableSet /\ t.seq = table.seq /\ t.projection = table.projection /\ t.page = table.page
  BY TableAsIs, NamesAreNumbers, SearchedTable
<1>2. RequestLater(t) /\ UNCHANGED ranked
  BY DEF SearchFor, Acts
<1> HIDE DEF t
<1> QED BY <1>1, <1>2, TableAsIs, LaterKeepsInv

LEMMA ClearKeepsInv == TableInv /\ ClearSearch => TableInv'
<1> SUFFICES ASSUME TableInv, ClearSearch PROVE TableInv'
  OBVIOUS
<1> DEFINE t == [table EXCEPT !.search = Everyone, !.offset = 0]
<1>1. t \in TableSet /\ t.seq = table.seq /\ t.projection = table.projection /\ t.page = table.page
  BY TableAsIs, NamesAreNumbers, SearchedTable
<1>2. RequestNow(t) /\ UNCHANGED ranked
  BY DEF ClearSearch, Acts
<1> HIDE DEF t
<1> QED BY <1>1, <1>2, TableAsIs, NowKeepsInv

LEMMA SortKeepsInv ==
    ASSUME TableInv, NEW key \in SortColumns, NEW first \in BOOLEAN, NEW append \in BOOLEAN,
           SortTable(key, first, append)
    PROVE  TableInv'
<1> DEFINE sorts == ToggleSort(table.sorts, key, first, append)
           t == [table EXCEPT !.sorts = sorts, !.offset = 0]
<1>1. sorts \in Sorts
  BY TableAsIs, ToggleKeepsSorts
<1>2. RequestNow(t) /\ UNCHANGED ranked
  BY DEF SortTable, Acts
<1> HIDE DEF sorts
<1>3. t \in TableSet /\ t.seq = table.seq /\ t.projection = table.projection /\ t.page = table.page
  BY <1>1, TableAsIs, SortedTable
<1> HIDE DEF t
<1> QED BY <1>2, <1>3, TableAsIs, NowKeepsInv

LEMMA TurnKeepsInv == TableInv /\ TurnPage => TableInv'
<1> SUFFICES ASSUME TableInv, TurnPage PROVE TableInv'
  OBVIOUS
<1>1. UNCHANGED ranked
  BY DEF TurnPage, Acts
<1>2. ASSUME NEW offset \in Nat, RequestNow([table EXCEPT !.offset = offset]) PROVE TableInv'
  <2> DEFINE t == [table EXCEPT !.offset = offset]
  <2>1. t \in TableSet /\ t.seq = table.seq /\ t.projection = table.projection /\ t.page = table.page
    BY TableAsIs, TurnedTable
  <2>2. RequestNow(t)
    BY <1>2
  <2> HIDE DEF t
  <2> QED BY <1>1, <2>1, <2>2, TableAsIs, NowKeepsInv
<1> DEFINE previous == Max({0, table.offset - PageSize})
           next == table.offset + PageSize
<1>3. table.offset \in Nat /\ PageSize \in Nat
  BY TableAsIs, TableAssumption
<1>4. next \in Nat
  BY <1>3
<1>5. previous \in Nat
  <2>1. previous = IF 0 <= table.offset - PageSize THEN table.offset - PageSize ELSE 0
    BY <1>3, GreaterOfTwo
  <2> HIDE DEF previous
  <2> QED BY <2>1, <1>3
<1>6. RequestNow([table EXCEPT !.offset = previous]) \/ RequestNow([table EXCEPT !.offset = next])
  BY Zenon DEF TurnPage
<1> HIDE DEF previous, next
<1> QED BY <1>2, <1>4, <1>5, <1>6

(* A projection that replaces another leaves what was asked of the old one   *)
(* to be of an earlier number.                                               *)
LEMMA ProjectKeepsInv == TableInv /\ ProjectRunners => TableInv'
<1> SUFFICES ASSUME TableInv, ProjectRunners PROVE TableInv'
  OBVIOUS
<1>1. PICK rows \in Rankings : ranked' = [id |-> ranked.id + 1, rows |-> rows]
  BY DEF ProjectRunners
<1>2. UNCHANGED <<table, requests, debounce>>
  BY DEF ProjectRunners
<1>3. ranked.id \in Nat /\ ranked'.id = ranked.id + 1 /\ ranked'.rows \in Rankings
  BY <1>1, TableAsIs
<1>4. TableTypeOK'
  BY <1>1, <1>2, <1>3 DEF TableInv, TableTypeOK
<1>5. table'.projection # None => table'.projection <= ranked'.id
  BY <1>2, <1>3, TableAsIs
<1>6. table'.page # None => table'.projection # None /\ table'.page.projection = table'.projection
  BY <1>2, TableAsIs
<1>7. \A q \in requests' : RequestIsOrderly(q)'
  <2> TAKE q \in requests'
  <2>1. q \in requests /\ RequestIsOrderly(q) /\ q.projection \in Nat /\ q.seq \in Nat
    BY <1>2 DEF TableInv, TableTypeOK, RequestSet
  <2>2. q.projection <= ranked'.id /\ q.projection # ranked'.id
    BY <2>1, <1>3 DEF RequestIsOrderly
  <2> QED BY <2>1, <2>2, <1>2 DEF RequestIsOrderly, InForce
<1>8. ~ InForce(table.projection)'
  <2> SUFFICES ASSUME table.projection = ranked'.id PROVE FALSE
    BY <1>2 DEF InForce
  <2>1. table.projection # None
    BY <1>3, TableAssumption
  <2> QED BY <2>1, <1>3, TableAsIs
<1> QED BY <1>4, <1>5, <1>6, <1>7, <1>8 DEF TableInv

LEMMA DropKeepsInv == TableInv /\ DropProjection => TableInv'
<1> SUFFICES ASSUME TableInv, DropProjection PROVE TableInv'
  OBVIOUS
<1>1. ranked' = [ranked EXCEPT !.rows = None] /\ UNCHANGED <<table, requests, debounce>>
  BY DEF DropProjection
<1>2. ranked \in [id : Nat, rows : Rankings \union {None}]
  BY DEF TableInv, TableTypeOK
<1>3. ranked'.id = ranked.id /\ ranked'.rows = None /\ ranked' \in [id : Nat, rows : Rankings \union {None}]
  BY <1>1, <1>2
<1>4. TableTypeOK'
  BY <1>1, <1>3 DEF TableInv, TableTypeOK
<1>5. \A q \in requests' : RequestIsOrderly(q)'
  BY <1>1, <1>3 DEF TableInv, RequestIsOrderly, InForce
<1>6. ~ InForce(table.projection)'
  BY <1>3 DEF InForce
<1> QED BY <1>1, <1>3, <1>4, <1>5, <1>6 DEF TableInv

(* An answer is of the ranking in force, or an error: never of another.      *)
LEMMA ServeKeepsInv ==
    ASSUME TableInv, NEW q \in requests, Serve(q)
    PROVE  TableInv'
<1> DEFINE page == IF ranked.rows = None \/ ranked.id # q.projection \/ ~ValidSorts(q.sorts) THEN None
                   ELSE RunnerPage(ranked.rows, q)
           u == [q EXCEPT !.served = TRUE, !.page = page]
<1>1. requests' = (requests \ {q}) \union {u} /\ UNCHANGED <<ranked, table, debounce>>
  BY Zenon DEF Serve
<1>2. /\ q \in RequestSet /\ RequestIsOrderly(q) /\ q.sorts \in Sorts /\ q.projection \in Nat
      /\ q.search \in SUBSET Int /\ q.offset \in Nat /\ ranked.rows \in Rankings \union {None}
  BY DEF TableInv, TableTypeOK, RequestSet
<1>3. ValidSorts(q.sorts)
  BY <1>2, SortsAreValid
<1>4. ASSUME ranked.rows # None
      PROVE  /\ RunnerPage(ranked.rows, q) \in Pages /\ RunnerPage(ranked.rows, q) # None
             /\ RunnerPage(ranked.rows, q).projection = q.projection
  BY <1>4, <1>2, PageOfRequest
<1>5. /\ page \in Pages \union {None}
      /\ page # None => page.projection = q.projection
      /\ InForce(q.projection) => page = RunnerPage(ranked.rows, q)
  BY <1>3, <1>4 DEF InForce
<1> HIDE DEF page
<1>6. /\ u \in RequestSet /\ u.seq = q.seq /\ u.projection = q.projection
      /\ u.page = page /\ u.served = TRUE /\ SameAsk(u, q)
  BY <1>2, <1>5, ServedRequest
<1> HIDE DEF u
<1>7. TableTypeOK'
  BY <1>1, <1>6 DEF TableInv, TableTypeOK
<1>8. RequestIsOrderly(u)
  <2>1. RunnerPage(ranked.rows, u) = RunnerPage(ranked.rows, q)
    BY <1>6, SameAskSamePage
  <2>2. q.seq = table.seq => SameAsk(u, table)
    BY <1>2, <1>6 DEF RequestIsOrderly, SameAsk
  <2> QED BY <2>1, <2>2, <1>2, <1>5, <1>6 DEF RequestIsOrderly
<1>9. \A r : RequestIsOrderly(r)' <=> RequestIsOrderly(r)
  BY <1>1 DEF RequestIsOrderly, InForce
<1>10. \A r \in requests' : RequestIsOrderly(r)'
  BY <1>1, <1>8, <1>9 DEF TableInv
<1>11. Awaited => Awaited'
  BY <1>1, <1>6 DEF Awaited
<1>12. InForce(table.projection)' <=> InForce(table.projection)
  BY <1>1 DEF InForce
<1> QED BY <1>1, <1>7, <1>10, <1>11, <1>12 DEF TableInv

(* Only the answer to the last request counts, and it is its page.           *)
LEMMA ReceiveKeepsInv ==
    ASSUME TableInv, NEW q \in requests, Receive(q)
    PROVE  TableInv'
<1>1. q.served /\ requests' = requests \ {q} /\ UNCHANGED <<ranked, debounce>>
  BY DEF Receive
<1>2. table' = IF q.seq # table.seq THEN table
               ELSE IF q.page = None THEN [table EXCEPT !.page = None, !.error = TRUE]
               ELSE IF q.projection = table.projection THEN [table EXCEPT !.page = q.page, !.error = FALSE]
               ELSE table
  BY Zenon DEF Receive
<1>3. q \in RequestSet /\ RequestIsOrderly(q) /\ q.page \in Pages \union {None} /\ q.projection \in Nat
  BY DEF TableInv, TableTypeOK, RequestSet
<1>4. CASE q.seq # table.seq
  <2>1. table' = table
    BY <1>2, <1>4
  <2>2. TableTypeOK'
    BY <1>1, <2>1 DEF TableInv, TableTypeOK
  <2>3. \A r : RequestIsOrderly(r)' <=> RequestIsOrderly(r)
    BY <1>1, <2>1 DEF RequestIsOrderly, InForce
  <2>4. Awaited => Awaited'
    BY <1>1, <1>4, <2>1 DEF Awaited
  <2>5. InForce(table.projection)' <=> InForce(table.projection)
    BY <1>1, <2>1 DEF InForce
  <2> QED BY <1>1, <2>1, <2>2, <2>3, <2>4, <2>5 DEF TableInv
<1>5. CASE q.seq = table.seq
  <2>1. SameAsk(q, table) /\ q.projection = table.projection
    BY <1>3, <1>5 DEF RequestIsOrderly, SameAsk
  <2> DEFINE error == q.page = None
             u == Answered(table, q.page, error)
  <2>2. table' = u
    <3>1. CASE q.page = None
      <4>1. table' = [table EXCEPT !.page = None, !.error = TRUE]
        BY <1>2, <1>5, <3>1, Zenon
      <4>2. error = TRUE
        BY <3>1
      <4> HIDE DEF error
      <4> QED BY <4>1, <4>2, <3>1, Zenon DEF Answered
    <3>2. CASE q.page # None
      <4>1. table' = [table EXCEPT !.page = q.page, !.error = FALSE]
        BY <1>2, <1>5, <2>1, <3>2, Zenon
      <4>2. error = FALSE
        BY <3>2
      <4> HIDE DEF error
      <4> QED BY <4>1, <4>2, Zenon DEF Answered
    <3> QED BY <3>1, <3>2
  <2>3. error \in BOOLEAN /\ table \in TableSet
    BY TableAsIs
  <2> HIDE DEF error
  <2>4. /\ u \in TableSet /\ u.seq = table.seq /\ u.projection = table.projection
        /\ u.page = q.page /\ u.error = error /\ SameAsk(u, table)
    BY <1>3, <2>3, AnsweredTable
  <2> HIDE DEF u
  <2>5. TableTypeOK'
    BY <1>1, <2>2, <2>4 DEF TableInv, TableTypeOK
  <2>6. table'.projection # None => table'.projection <= ranked'.id
    BY <1>1, <2>2, <2>4, TableAsIs
  <2>7. table'.page # None => table'.projection # None /\ table'.page.projection = table'.projection
    <3>1. q.page # None => q.page.projection = q.projection
      BY <1>3 DEF RequestIsOrderly
    <3>2. q.projection # None
      BY <1>3, TableAssumption
    <3> QED BY <3>1, <3>2, <2>1, <2>2, <2>4
  <2>8. \A r \in requests' : RequestIsOrderly(r)'
    <3> TAKE r \in requests'
    <3>1. r \in requests /\ RequestIsOrderly(r)
      BY <1>1 DEF TableInv
    <3>2. SameAsk(r, table) => SameAsk(r, table')
      BY <2>2, <2>4 DEF SameAsk
    <3> QED BY <3>1, <3>2, <1>1, <2>2, <2>4 DEF RequestIsOrderly, InForce
  <2>9. InForce(table.projection)' => ~table'.error /\ table'.page = RunnerPage(ranked'.rows, table')
    <3> SUFFICES ASSUME InForce(q.projection) PROVE ~table'.error /\ table'.page = RunnerPage(ranked'.rows, table')
      BY <1>1, <2>1, <2>2, <2>4 DEF InForce
    <3>1. q.page = RunnerPage(ranked.rows, q)
      BY <1>1, <1>3 DEF RequestIsOrderly
    <3>2. q.page # None
      <4>1. /\ ranked.rows \in Rankings /\ q.projection \in Nat /\ q.search \in SUBSET Int
            /\ q.sorts \in Sorts /\ q.offset \in Nat
        BY <1>3 DEF TableInv, TableTypeOK, RequestSet, InForce
      <4> QED BY <4>1, <3>1, PageOfRequest
    <3>3. ~error
      BY <3>2 DEF error
    <3>4. SameAsk(q, table')
      BY <2>1, <2>2, <2>4 DEF SameAsk
    <3>5. RunnerPage(ranked.rows, q) = RunnerPage(ranked'.rows, table')
      BY <3>4, <1>1, SameAskSamePage
    <3> QED BY <3>1, <3>3, <3>5, <2>2, <2>4
  <2> QED BY <2>5, <2>6, <2>7, <2>8, <2>9 DEF TableInv
<1> QED BY <1>4, <1>5

LEMMA TimerKeepsInv == TableInv /\ TimerFires => TableInv'
<1> SUFFICES ASSUME TableInv, TimerFires PROVE TableInv'
  OBVIOUS
<1>1. debounce # None /\ debounce' = None /\ UNCHANGED <<ranked, table>>
      /\ requests' = IF debounce # table.seq \/ table.projection = None THEN requests ELSE requests \union {Asked(table)}
  BY DEF TimerFires
<1>2. debounce = table.seq
  BY <1>1 DEF TableInv, TableTypeOK
<1> DEFINE r == Asked(table)
<1>3. table.projection # None =>
        /\ r \in RequestSet /\ SameAsk(r, table) /\ r.seq = table.seq
        /\ r.served = FALSE /\ r.page = None /\ r.projection = table.projection
  BY TableAsIs, AskedIs
<1> HIDE DEF r
<1>4. requests' = IF table.projection = None THEN requests ELSE requests \union {r}
  BY <1>1, <1>2 DEF r
<1>5. TableTypeOK'
  BY <1>1, <1>3, <1>4 DEF TableInv, TableTypeOK
<1>6. \A q : RequestIsOrderly(q)' <=> RequestIsOrderly(q)
  BY <1>1 DEF RequestIsOrderly, InForce
<1>7. table.projection # None => RequestIsOrderly(r)
  BY <1>3, TableAsIs DEF RequestIsOrderly
<1>8. \A q \in requests' : RequestIsOrderly(q)'
  BY <1>4, <1>6, <1>7 DEF TableInv
<1>9. InForce(table.projection)' => Awaited'
  <2> SUFFICES ASSUME InForce(table.projection)' PROVE \E q \in requests' : q.seq = table'.seq
    BY DEF Awaited
  <2>1. table.projection # None
    <3>1. table.projection = ranked.id
      BY <1>1 DEF InForce
    <3> QED BY <3>1, TableAsIs, TableAssumption
  <2> QED BY <2>1, <1>1, <1>3, <1>4
<1> QED BY <1>1, <1>5, <1>8, <1>9 DEF TableInv

LEMMA InitTable == TableInit => TableInv
<1> SUFFICES ASSUME TableInit PROVE TableInv
  OBVIOUS
<1> DEFINE c == [key |-> "time", down |-> TRUE]
<1>1. <<c>> \in Sorts
  <2>1. c \in Criteria
    BY TableAssumption DEF Criteria
  <2> HIDE DEF c
  <2>2. <<c>> \in Seq(Criteria) /\ Len(<<c>>) = 1
    BY <2>1
  <2>3. \A i, j \in 1 .. Len(<<c>>) : i = j
    BY <2>2
  <2> QED BY <2>2, <2>3, SortsAre
<1> DEFINE s == <<c>>
<1>2. /\ ranked = [id |-> 0, rows |-> None] /\ requests = {} /\ debounce = None
      /\ table = [projection |-> None, search |-> Everyone, sorts |-> s, offset |-> 0, seq |-> 0, page |-> None,
                  error |-> FALSE]
  BY DEF TableInit
<1>3. Everyone \in SUBSET Int
  BY NamesAreNumbers
<1> HIDE DEF s
<1>4. s \in Sorts
  BY <1>1 DEF s
<1>5. table \in TableSet /\ table.projection = None /\ table.page = None
  <2> DEFINE P == Nat \union {None}
             Q == SUBSET Int
             R == Pages \union {None}
  <2>1. TableSet = [projection : P, search : Q, sorts : Sorts, offset : Nat, seq : Nat, page : R, error : BOOLEAN]
    BY DEF TableSet
  <2>2. None \in P /\ Everyone \in Q /\ None \in R
    BY <1>3
  <2> HIDE DEF P, Q, R
  <2> QED BY <1>2, <1>4, <2>1, <2>2
<1>6. ranked \in [id : Nat, rows : Rankings \union {None}]
  BY <1>2
<1>7. ~ InForce(table.projection)
  BY <1>2 DEF InForce
<1> QED BY <1>2, <1>5, <1>6, <1>7 DEF TableInv, TableTypeOK

LEMMA TableStep == TableInv /\ [TableNext]_tableVars => TableInv'
<1> SUFFICES ASSUME TableInv, [TableNext]_tableVars PROVE TableInv'
  OBVIOUS
<1>1. CASE ProjectRunners \/ DropProjection \/ ShowProjection \/ ClearSearch \/ TurnPage \/ TimerFires
  BY <1>1, ProjectKeepsInv, DropKeepsInv, ShowKeepsInv, ClearKeepsInv, TurnKeepsInv, TimerKeepsInv
<1>2. CASE \E needle \in Needles : SearchFor(needle)
  BY <1>2, SearchKeepsInv
<1>3. CASE \E key \in SortColumns, first, append \in BOOLEAN : SortTable(key, first, append)
  BY <1>3, SortKeepsInv
<1>4. CASE \E q \in requests : Serve(q) \/ Receive(q)
  BY <1>4, ServeKeepsInv, ReceiveKeepsInv
<1>5. CASE UNCHANGED tableVars
  BY <1>5 DEF tableVars, TableInv, TableTypeOK, RequestIsOrderly, InForce, Awaited
<1> QED BY <1>1, <1>2, <1>3, <1>4, <1>5 DEF TableNext

(* What is under way around the table of runners stays in order: only the    *)
(* last request counts, and its answer is the page of the ranking in force   *)
(* (requestRunnerPage() of public/app.js, runnerPage() of lib/instance.mjs). *)
THEOREM TableInvariant == TableSpec => []TableInv
BY InitTable, TableStep, PTL DEF TableSpec

(* A row that comes earlier has no lesser place in the first column.         *)
LEMMA FirstColumnDecides ==
    ASSUME NEW sorts \in Seq(Criteria), sorts # <<>>, NEW a \in RankedRows, NEW b \in RankedRows, Earlier(a, b, sorts)
    PROVE  IF sorts[1].down THEN Value(a, sorts[1].key) >= Value(b, sorts[1].key)
           ELSE Value(a, sorts[1].key) <= Value(b, sorts[1].key)
<1>1. DOMAIN sorts = 1 .. Len(sorts) /\ Len(sorts) \in Nat /\ Len(sorts) # 0
  OBVIOUS
<1>2. 1 \in DOMAIN sorts
  BY <1>1
<1>3. Value(a, sorts[1].key) \in Int /\ Value(b, sorts[1].key) \in Int
  BY <1>2, CriteriaAreRead
<1>4. CASE Value(a, sorts[1].key) = Value(b, sorts[1].key)
  BY <1>3, <1>4
<1>5. CASE Value(a, sorts[1].key) # Value(b, sorts[1].key)
  <2>1. PICK i \in DOMAIN sorts :
           /\ \A j \in 1 .. i - 1 : Value(a, sorts[j].key) = Value(b, sorts[j].key)
           /\ IF sorts[i].down THEN Value(a, sorts[i].key) > Value(b, sorts[i].key)
              ELSE Value(a, sorts[i].key) < Value(b, sorts[i].key)
    BY <1>2, <1>5 DEF Earlier
  <2>2. i = 1
    <3>1. 1 \notin 1 .. i - 1
      BY <2>1, <1>5
    <3>2. i \in Nat /\ i >= 1
      BY <1>1
    <3> QED BY <3>1, <3>2
  <2> QED BY <2>1, <2>2, <1>3
<1> QED BY <1>4, <1>5

LEMMA InvImpliesOfItsRequest == TableInv => TableIsOfItsRequest
<1> SUFFICES ASSUME TableInv PROVE TableIsOfItsRequest
  OBVIOUS
<1>1. table.page # None => table.page.projection = table.projection
  BY TableAsIs
<1>2. ASSUME Quiet, ranked.rows # None, table.projection = ranked.id
      PROVE  /\ ~table.error /\ table.page # None
             /\ table.page.search = table.search /\ table.page.sorts = table.sorts /\ table.page.offset = table.offset
             /\ table.page.matched = Cardinality(OfRanking)
             /\ LET shown == {row.r : row \in Range(table.page.rows)}
                    Of(r) == CHOOSE row \in Range(ranked.rows) : row.r = r
                    key == Head(table.sorts).key
                IN  /\ shown \subseteq OfRanking
                    /\ Cardinality(shown) = Min({PageSize, Max({0, Cardinality(OfRanking) - table.offset})})
                    /\ table.offset = 0 /\ table.sorts # <<>> /\ key # "runner" =>
                         \A r \in shown, other \in OfRanking \ shown :
                             IF Head(table.sorts).down THEN Of(r)[key] >= Of(other)[key]
                             ELSE Of(r)[key] <= Of(other)[key]
  <2> DEFINE rows == ranked.rows
             s == SortedBy(Found(rows, table.search), table.sorts)
             cut == Cut(rows, table.search, table.sorts, table.offset)
             shown == {row.r : row \in Range(cut)}
             Of(r) == CHOOSE row \in Range(rows) : row.r = r
             key == Head(table.sorts).key
  <2>1. ~Awaited /\ InForce(table.projection)
    BY <1>2 DEF Quiet, Awaited, InForce
  <2>2. ~table.error /\ table.page = RunnerPage(rows, table)
    BY <2>1 DEF TableInv
  <2>3. /\ rows \in Rankings /\ table.sorts \in Seq(Criteria) /\ table.sorts \in Sorts /\ table.offset \in Nat
        /\ table.projection \in Nat /\ table.search \in SUBSET Int
    <3>1. ranked.rows \in Rankings \union {None} /\ table.sorts \in Sorts /\ table.search \in SUBSET Int
      BY DEF TableInv, TableTypeOK, TableSet
    <3> QED BY <3>1, <1>2, TableAsIs DEF Sorts
  <2>4. table.page # None
    BY <2>2, <2>3, PageOfRequest
  <2>5. table.page = [projection |-> table.projection, search |-> table.search, sorts |-> table.sorts,
                      offset |-> table.offset, matched |-> Len(s), rows |-> cut]
    BY <2>2 DEF RunnerPage, Found, Cut
  <2>6. OfRanking = {row.r : row \in Found(rows, table.search)}
    BY DEF OfRanking, Found
  <2>7. /\ Range(cut) \subseteq Found(rows, table.search)
        /\ shown \subseteq OfRanking
        /\ Cardinality(OfRanking) = Len(s)
        /\ Cardinality(shown) = Min({PageSize, Max({0, Cardinality(OfRanking) - table.offset})})
        /\ table.offset = 0 => \A a \in Range(cut), b \in Found(rows, table.search) :
                                    b.r \notin shown => Earlier(a, b, table.sorts)
    <3> HIDE DEF rows
    <3> QED BY <2>3, <2>6, CutIsExact, ZenonT(60)
  <2> HIDE DEF s, cut
  <2>8. /\ table.page.search = table.search /\ table.page.sorts = table.sorts /\ table.page.offset = table.offset
        /\ table.page.matched = Len(s) /\ table.page.rows = cut
    BY <2>5
  <2>9. ASSUME table.offset = 0, table.sorts # <<>>, key # "runner",
               NEW r \in shown, NEW other \in OfRanking \ shown
        PROVE  IF Head(table.sorts).down THEN Of(r)[key] >= Of(other)[key] ELSE Of(r)[key] <= Of(other)[key]
    <3>1. PICK a \in Range(cut) : r = a.r
      OBVIOUS
    <3>2. PICK b \in Found(rows, table.search) : other = b.r
      BY <2>6
    <3>3. /\ Range(cut) \subseteq Range(rows) /\ Found(rows, table.search) \subseteq Range(rows)
      <4>1. Found(rows, table.search) \subseteq Range(rows)
        BY DEF Found
      <4>2. Range(cut) \subseteq Range(rows)
        BY <4>1, <2>7
      <4> QED BY <4>1, <4>2
    <3>4. Range(rows) \subseteq RankedRows /\ \A x, y \in Range(rows) : x.r = y.r => x = y
      BY <2>3, RankingFacts
    <3>5. a \in Range(rows) /\ b \in Range(rows) /\ a \in RankedRows /\ b \in RankedRows
      BY <3>3, <3>4
    <3>6. Of(r) = a /\ Of(other) = b
      <4> HIDE DEF rows
      <4> QED BY <3>1, <3>2, <3>4, <3>5
    <3>7. Earlier(a, b, table.sorts)
      BY <2>7, <2>9, <3>2
    <3>8. Head(table.sorts) = table.sorts[1]
      BY <2>3, <2>9
    <3>9. Value(a, key) = a[key] /\ Value(b, key) = b[key]
      BY <2>9 DEF Value
    <3> HIDE DEF Of
    <3>10. IF table.sorts[1].down THEN Value(a, table.sorts[1].key) >= Value(b, table.sorts[1].key)
           ELSE Value(a, table.sorts[1].key) <= Value(b, table.sorts[1].key)
      BY <2>3, <2>9, <3>5, <3>7, FirstColumnDecides
    <3> QED BY <3>6, <3>8, <3>9, <3>10
  <2>10. \A r \in shown, other \in OfRanking \ shown :
            table.offset = 0 /\ table.sorts # <<>> /\ key # "runner" =>
               IF Head(table.sorts).down THEN Of(r)[key] >= Of(other)[key] ELSE Of(r)[key] <= Of(other)[key]
    BY <2>9
  <2> HIDE DEF Of, key
  <2>11. table.offset = 0 /\ table.sorts # <<>> /\ key # "runner" =>
           \A r \in shown, other \in OfRanking \ shown :
              IF Head(table.sorts).down THEN Of(r)[key] >= Of(other)[key] ELSE Of(r)[key] <= Of(other)[key]
    BY <2>10
  <2>12. {row.r : row \in Range(table.page.rows)} = shown
    BY <2>8
  <2> HIDE DEF shown
  <2> QED BY <2>2, <2>4, <2>7, <2>8, <2>11, <2>12 DEF Of, key
<1> QED BY <1>1, <1>2 DEF TableIsOfItsRequest

(* Once nothing is under way, the table of the projection in force shows the *)
(* page its fields ask for, whatever was typed, sorted and turned meanwhile, *)
(* and whatever order the answers came in (app.js:2085-2139).                *)
THEOREM TableStaysOfItsRequest == TableSpec => []TableIsOfItsRequest
BY TableInvariant, InvImpliesOfItsRequest, PTL
===========================================================================
