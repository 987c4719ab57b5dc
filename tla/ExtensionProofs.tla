-------------------------- MODULE ExtensionProofs --------------------------
(* Proofs, for every value of the constants, about four parts of the         *)
(* extension that each stand alone: its gate on the calls of gh (lib/gh.mjs),*)
(* the file of its preferences (lib/prefs.mjs), what it asks of the          *)
(* installed CLI (lib/runnerkit.mjs, lib/dataset.mjs), and the lines it      *)
(* reads of one child process (lib/process.mjs).                             *)
EXTENDS RateLimit, PrefsStore, Toolkit, Stream, SequenceTheorems, WellFoundedInduction, TLAPS

---------------------------------------------------------------------------
(* lib/gh.mjs, for any calls, probes, times and token changes: a cooldown is *)
(* kept until the time callers were told to wait for, it is of the token in  *)
(* force, and refusals share one probe.                                      *)

(* What installing a measured cooldown preserves. *)
LEMMA InstallKeeps ==
    ASSUME NEW until \in Times, NEW generation, NEW t \in Tokens,
           RateInv, generation = token => t = token,
           Install(until, generation, t)
    PROVE  /\ cooldown' \in Cooldown \union {None}
           /\ told' \in Times
           /\ told' # 0 => cooldown' # None /\ told' <= cooldown'.until
           /\ cooldown' # None => cooldown'.token = token
<1>1. CASE generation # token
  BY <1>1 DEF Install, RateInv, RateTypeOK, ToldIsInstalled, NewTokenIsNotBlocked
<1>2. CASE generation = token
  <2> DEFINE longer == LongerCooldown(until, t)
  <2>1. /\ cooldown' = longer
        /\ told' = IF told < longer.until THEN longer.until ELSE told
    BY <1>2 DEF Install
  <2>2. longer \in Cooldown /\ longer.token = token
    BY <1>2 DEF LongerCooldown, Cooldown, RateInv, RateTypeOK, NewTokenIsNotBlocked
  <2>3. longer # None /\ longer.until \in Times
    BY <2>2, RateAssumption DEF Cooldown
  <2>4. told \in Times
    BY DEF RateInv, RateTypeOK
  <2>5. told # 0 => told <= longer.until
    <3>1. cooldown # None => cooldown \in Cooldown
      BY DEF RateInv, RateTypeOK
    <3>2. told # 0 => cooldown # None /\ told <= cooldown.until
      BY DEF RateInv, ToldIsInstalled
    <3> QED
      BY <2>4, <3>1, <3>2, RateAssumption DEF LongerCooldown, Cooldown, Times
  <2> HIDE DEF longer
  <2>6. told' \in Times /\ told' <= longer.until
    BY <2>1, <2>3, <2>4, <2>5, RateAssumption DEF Times
  <2> QED
    BY <2>1, <2>2, <2>3, <2>6
<1> QED BY <1>1, <1>2

(* What a probe concludes is a time, and a refused or measured token one.  *)
LEMMA ConclusionsAreTimes ==
    ASSUME NEW p \in Probes, RateTypeOK, probe[p].pc = "asking"
    PROVE  /\ Conclusions(p) \subseteq Times
           /\ probe[p].token \in Tokens
           /\ probe[p].started \in 0 .. MaxTime
<1>1. probe[p] \in [pc : {"asking"}, generation : Tokens, started : 0 .. MaxTime, token : Tokens]
  BY DEF RateTypeOK, ProbeType
<1> QED
  BY <1>1, RateAssumption DEF Conclusions, Times

---------------------------------------------------------------------------
LEMMA RateInitOK == RateInit => RateInv
BY RateAssumption
DEF RateInit, RateInv, RateTypeOK, NewTokenIsNotBlocked, ToldIsInstalled, RunningIsOfTheToken,
    CurrentProbe, Times, Tokens, ProbeType, CallType

LEMMA RateStep == RateInv /\ [RateNext]_rateVars => RateInv'
<1> SUFFICES ASSUME RateInv, [RateNext]_rateVars PROVE RateInv'
  OBVIOUS
<1> USE DEF RateInv
<1>1. ASSUME NEW k \in Calls, Begins(k) PROVE RateInv'
  <2>1. RateTypeOK'
    BY <1>1 DEF Begins, RateTypeOK, CallType, ProbeType
  <2>2. RunningIsOfTheToken'
    BY <1>1 DEF Begins, RateTypeOK, RunningIsOfTheToken
  <2> QED
    BY <1>1, <2>1, <2>2 DEF Begins, NewTokenIsNotBlocked, ToldIsInstalled, CurrentProbe
<1>2. ASSUME NEW k \in Calls, BudgetLeft(k) PROVE RateInv'
  <2>0. call[k] \in [pc : {"preflight", "sent"}, token : Tokens, aborted : BOOLEAN]
    BY <1>2 DEF BudgetLeft, RateTypeOK, CallType
  <2>1. RateTypeOK'
    BY <1>2, <2>0 DEF BudgetLeft, Ends, RateTypeOK, CallType, ProbeType
  <2>2. RunningIsOfTheToken'
    BY <1>2, <2>0 DEF BudgetLeft, Ends, RateTypeOK, RunningIsOfTheToken
  <2> QED
    BY <1>2, <2>1, <2>2 DEF BudgetLeft, NewTokenIsNotBlocked, ToldIsInstalled, CurrentProbe
<1>3. ASSUME NEW k \in Calls, BudgetSpent(k) PROVE RateInv'
  <2>1. call[k] \in [pc : {"preflight", "sent"}, token : Tokens, aborted : BOOLEAN]
    BY <1>3 DEF BudgetSpent, RateTypeOK, CallType
  <2>2. PICK reset \in now + 1 .. MaxTime : Install(reset, call[k].token, call[k].token)
    BY <1>3 DEF BudgetSpent
  <2>3. reset \in Times
    BY RateAssumption DEF RateTypeOK, Times
  <2>4. /\ cooldown' \in Cooldown \union {None}
        /\ told' \in Times
        /\ told' # 0 => cooldown' # None /\ told' <= cooldown'.until
        /\ cooldown' # None => cooldown'.token = token
    BY <2>1, <2>2, <2>3, InstallKeeps
  <2>5. RunningIsOfTheToken'
    BY <1>3 DEF BudgetSpent, Ends, RateTypeOK, RunningIsOfTheToken
  <2>6. RateTypeOK'
    BY <1>3, <2>4 DEF BudgetSpent, Ends, RateTypeOK, CallType, ProbeType
  <2> QED
    BY <1>3, <2>4, <2>5, <2>6
    DEF BudgetSpent, NewTokenIsNotBlocked, ToldIsInstalled, CurrentProbe
<1>4. ASSUME NEW k \in Calls, Completes(k) PROVE RateInv'
  <2>1. RateTypeOK'
    BY <1>4 DEF Completes, Ends, RateTypeOK, CallType, ProbeType
  <2>2. RunningIsOfTheToken'
    BY <1>4 DEF Completes, Ends, RateTypeOK, RunningIsOfTheToken
  <2> QED
    BY <1>4, <2>1, <2>2 DEF Completes, NewTokenIsNotBlocked, ToldIsInstalled, CurrentProbe
<1>5. ASSUME NEW k \in Calls, IsRefused(k) PROVE RateInv'
  <2>1. call[k] \in [pc : {"sent"}, token : Tokens, aborted : BOOLEAN] /\ call[k].token = token
    BY <1>5 DEF IsRefused, RateTypeOK, CallType, RunningIsOfTheToken
  <2>2. CASE current # None
    <3>1. RateTypeOK'
      BY <1>5, <2>2 DEF IsRefused, RateTypeOK, CallType, ProbeType
    <3>2. RunningIsOfTheToken'
      BY <1>5, <2>2 DEF IsRefused, RateTypeOK, RunningIsOfTheToken
    <3> QED
      BY <1>5, <2>2, <3>1, <3>2 DEF IsRefused, NewTokenIsNotBlocked, ToldIsInstalled, CurrentProbe
  <2>3. CASE current = None
    <3>1. PICK p \in Probes :
            /\ probe' = [probe EXCEPT ![p] =
                 [pc |-> "asking", generation |-> token, started |-> now,
                  token |-> call[k].token]]
            /\ current' = p
            /\ call' = [call EXCEPT ![k] = [pc |-> "noting", awaits |-> p]]
      BY <1>5, <2>3 DEF IsRefused
    <3>2. UNCHANGED <<now, token, cooldown, told>>
      BY <1>5 DEF IsRefused
    <3>3. RateTypeOK'
      BY <2>1, <3>1, <3>2 DEF RateTypeOK, CallType, ProbeType
    <3>4. RunningIsOfTheToken'
      BY <3>1, <3>2 DEF RateTypeOK, RunningIsOfTheToken
    <3>5. \A q \in Probes : probe[q].pc = "asking" => probe[q].generation < token
      BY <2>3, RateAssumption DEF CurrentProbe, RateTypeOK, ProbeType, Tokens
    <3>6. CurrentProbe'
      BY <2>1, <3>1, <3>2, <3>5 DEF CurrentProbe, RateTypeOK, Tokens
    <3> QED
      BY <3>2, <3>3, <3>4, <3>6 DEF NewTokenIsNotBlocked, ToldIsInstalled
  <2> QED BY <2>2, <2>3
<1>6. ASSUME NEW p \in Probes, ProbeAnswers(p) PROVE RateInv'
  <2>1. probe[p].pc = "asking"
    BY <1>6 DEF ProbeAnswers
  <2>2. PICK until \in Conclusions(p) : Install(until, probe[p].generation, probe[p].token)
    BY <1>6 DEF ProbeAnswers
  <2>3. /\ cooldown' \in Cooldown \union {None}
        /\ told' \in Times
        /\ told' # 0 => cooldown' # None /\ told' <= cooldown'.until
        /\ cooldown' # None => cooldown'.token = token
    BY <2>1, <2>2, ConclusionsAreTimes, InstallKeeps DEF CurrentProbe
  <2>4. RateTypeOK'
    BY <1>6, <2>3 DEF ProbeAnswers, RateTypeOK, CallType, ProbeType
  <2>5. RunningIsOfTheToken'
    BY <1>6 DEF ProbeAnswers, RateTypeOK, RunningIsOfTheToken
  <2>6. CurrentProbe'
    BY <1>6 DEF ProbeAnswers, RateTypeOK, CurrentProbe
  <2> QED
    BY <1>6, <2>3, <2>4, <2>5, <2>6 DEF ProbeAnswers, NewTokenIsNotBlocked, ToldIsInstalled
<1>7. CASE SetToken
  <2>1. token' = token + 1 /\ token' \in Tokens /\ token \in Nat
    BY <1>7, RateAssumption DEF SetToken, RateTypeOK, Tokens
  <2>2. RateTypeOK'
    <3>1. call' \in [Calls -> CallType]
      <4> SUFFICES ASSUME NEW k \in Calls PROVE call'[k] \in CallType
        BY <1>7 DEF SetToken
      <4>1. call[k] \in CallType
        BY DEF RateTypeOK
      <4>2. CASE call[k].pc \in {"preflight", "sent"}
        <5>1. call[k] \in [pc : {"preflight", "sent"}, token : Tokens, aborted : BOOLEAN]
          BY <4>1, <4>2 DEF CallType
        <5>2. call'[k] = [call[k] EXCEPT !.aborted = TRUE]
          BY <1>7, <4>2 DEF SetToken
        <5> QED BY <5>1, <5>2 DEF CallType
      <4>3. CASE call[k].pc \notin {"preflight", "sent"}
        BY <1>7, <4>1, <4>3 DEF SetToken
      <4> QED BY <4>2, <4>3
    <3> QED
      BY <1>7, <2>1, <3>1, RateAssumption DEF SetToken, RateTypeOK, Times
  <2>3. RunningIsOfTheToken'
    <3> SUFFICES ASSUME NEW k \in Calls, call'[k].pc \in {"preflight", "sent"}
                 PROVE  call'[k].aborted
      BY DEF RunningIsOfTheToken
    <3>1. call[k] \in CallType
      BY DEF RateTypeOK
    <3>2. CASE call[k].pc \in {"preflight", "sent"}
      <4>1. call[k] \in [pc : {"preflight", "sent"}, token : Tokens, aborted : BOOLEAN]
        BY <3>1, <3>2 DEF CallType
      <4> QED BY <1>7, <3>2, <4>1 DEF SetToken
    <3>3. CASE call[k].pc \notin {"preflight", "sent"}
      BY <1>7, <3>3 DEF SetToken
    <3> QED BY <3>2, <3>3
  <2>4. CurrentProbe'
    BY <1>7, <2>1, RateAssumption DEF SetToken, CurrentProbe, RateTypeOK, ProbeType, Tokens
  <2> QED
    BY <1>7, <2>2, <2>3, <2>4 DEF SetToken, NewTokenIsNotBlocked, ToldIsInstalled
<1>8. CASE Tick
  <2>1. now' \in 0 .. MaxTime
    BY <1>8, RateAssumption DEF Tick, RateTypeOK
  <2> QED
    BY <1>8, <2>1
    DEF Tick, RateTypeOK, NewTokenIsNotBlocked, ToldIsInstalled, RunningIsOfTheToken, CurrentProbe
<1>9. CASE UNCHANGED rateVars
  BY <1>9
  DEF rateVars, RateTypeOK, NewTokenIsNotBlocked, ToldIsInstalled, RunningIsOfTheToken, CurrentProbe
<1> QED
  BY <1>1, <1>2, <1>3, <1>4, <1>5, <1>6, <1>7, <1>8, <1>9 DEF RateNext

(* The inductive invariant holds in every reachable state of gh.mjs's      *)
(* cooldown and probe maps.                                                *)
THEOREM RateInvariant == RateSafety => []RateInv
<1>1. RateInit => RateInv
  BY RateInitOK
<1>2. RateInv /\ [RateNext]_rateVars => RateInv'
  BY RateStep
<1> QED
  BY <1>1, <1>2, PTL DEF RateSafety

(* Nobody is let through before the time others were told to wait for.     *)
THEOREM PausesAreKept == RateSafety => []PauseIsKept
<1>1. RateInv => PauseIsKept
  BY RateAssumption
  DEF RateInv, RateTypeOK, ToldIsInstalled, PauseIsKept, Active, Cooldown, Times
<1> QED
  BY <1>1, RateInvariant, PTL

(* A cooldown in force is the limit of the token in force.                 *)
THEOREM NewTokensAreNotBlocked == RateSafety => []NewTokenIsNotBlocked
<1>1. RateInv => NewTokenIsNotBlocked
  BY DEF RateInv
<1> QED
  BY <1>1, RateInvariant, PTL

(* Refusals that arrive together share one probe.                          *)
THEOREM RefusalsShareOneProbe == RateSafety => []OneProbe
<1>1. RateInv => OneProbe
  BY DEF RateInv, CurrentProbe, OneProbe
<1> QED
  BY <1>1, RateInvariant, PTL

---------------------------------------------------------------------------
(* lib/prefs.mjs, for any number of targets, calls and restarts: the file    *)
(* never keeps an older value than the cache once the chain of writes is     *)
(* empty.                                                                    *)

Maps == [Identities -> 0 .. MaxCalls]

SaveType ==
    [pc : {"none"}]
    \union [pc : {"load", "reload", "saving"}, kind : {"filters", "steps"},
            target : Identities, snapshot : Maps]

PrefsTypeOK ==
    /\ cache \in Prefs \union {None}
    /\ disk \in Prefs \union {Torn}
    /\ writes \in Seq(Prefs)
    /\ save \in [Saves -> SaveType]
    /\ made \in 0 .. MaxCalls

(* Whoever has read the cache finds it there until the process ends.       *)
CacheOutlivesReaders == \A k \in Saves : save[k].pc = "reload" => cache # None

(* The last write of the chain is the cache: every merge queues one.       *)
ChainEndsInCache == writes # <<>> => cache = writes[Len(writes)]

PrefsInv ==
    /\ PrefsTypeOK /\ CacheOutlivesReaders /\ ChainEndsInCache /\ DiskFollowsCache
    /\ writing => writes # <<>>

---------------------------------------------------------------------------
LEMMA PrefsInitEstablishes == PrefsInit => PrefsInv
<1> SUFFICES ASSUME PrefsInit PROVE PrefsInv
  OBVIOUS
<1>1. save \in [Saves -> SaveType] /\ \A k \in Saves : save[k].pc = "none"
  BY DEF PrefsInit, NoSaves, SaveType
<1>2. PrefsTypeOK
  BY <1>1, PrefsAssumption DEF PrefsInit, PrefsTypeOK
<1> QED BY <1>1, <1>2 DEF PrefsInv, PrefsInit, CacheOutlivesReaders, ChainEndsInCache,
                          DiskFollowsCache

(* A merged value becomes the cache and the end of the chain.              *)
LEMMA CommitPreserves ==
    ASSUME PrefsInv, NEW k \in Saves, NEW merged \in Prefs, save[k].pc # "none",
           CommitPrefs(k, merged)
    PROVE  PrefsInv'
<1> USE DEF PrefsInv
<1>1. /\ cache' = merged /\ merged # None
      /\ writes' = Append(writes, merged)
      /\ disk' = disk /\ made' = made /\ writing' = writing
  BY PrefsValues DEF CommitPrefs
<1>2. writes' \in Seq(Prefs) /\ writes' # <<>> /\ writes'[Len(writes')] = merged
  BY <1>1 DEF PrefsTypeOK
<1>3. save' \in [Saves -> SaveType]
  <2>1. save[k] \in SaveType /\ save[k].pc # "none"
    BY DEF PrefsTypeOK
  <2>2. [save[k] EXCEPT !.pc = "saving"] \in SaveType
    BY <2>1 DEF SaveType
  <2> QED BY <2>2 DEF CommitPrefs, PrefsTypeOK
<1>4. PrefsTypeOK'
  BY <1>1, <1>2, <1>3 DEF PrefsTypeOK
<1> QED BY <1>1, <1>2, <1>4 DEF CacheOutlivesReaders, ChainEndsInCache, DiskFollowsCache

LEMMA AskPreserves ==
    ASSUME PrefsInv, NEW kind \in {"filters", "steps"}, NEW t \in Identities, Ask(kind, t)
    PROVE  PrefsInv'
<1> USE DEF PrefsInv
<1> DEFINE asked == [pc |-> "load", kind |-> kind, target |-> t, snapshot |-> Empty.filters]
<1>1. asked \in SaveType /\ asked.pc = "load"
  BY PrefsAssumption DEF SaveType, Maps, Empty
<1>2. made + 1 \in Saves /\ made' = made + 1 /\ save' = [save EXCEPT ![made + 1] = asked]
  BY PrefsAssumption DEF Ask, Saves, PrefsTypeOK
<1> HIDE DEF asked
<1>3. /\ save' \in [Saves -> SaveType]
      /\ \A k \in Saves : save'[k].pc = "reload" => save[k].pc = "reload"
  BY <1>1, <1>2 DEF PrefsTypeOK
<1>4. UNCHANGED <<cache, disk, writes, writing, failed>>
  BY DEF Ask
<1>5. made' \in 0 .. MaxCalls
  BY <1>2, PrefsAssumption DEF Saves, PrefsTypeOK
<1> QED BY <1>3, <1>4, <1>5
        DEF PrefsTypeOK, CacheOutlivesReaders, ChainEndsInCache, DiskFollowsCache

LEMMA LoadedPreserves ==
    ASSUME PrefsInv, LoadPrefs \/ Loaded PROVE PrefsInv'
<1> USE DEF PrefsInv
<1>1. CASE LoadPrefs
  BY <1>1 DEF LoadPrefs, PrefsTypeOK, CacheOutlivesReaders, ChainEndsInCache, DiskFollowsCache
<1>2. CASE Loaded
  <2>1. ReadBack(disk) \in Prefs
    BY PrefsAssumption DEF ReadBack, Empty, Prefs, PrefsTypeOK
  <2>2. UNCHANGED <<disk, writes, writing, failed, save, made>>
    BY <1>2 DEF Loaded
  <2>3. CASE cache = None
    <3>1. writes = <<>>
      <4>1. writes # <<>> => writes[Len(writes)] \in Prefs
        BY DEF PrefsTypeOK
      <4> QED BY <4>1, <2>3, PrefsValues DEF ChainEndsInCache
    <3>2. cache' = ReadBack(disk)
      BY <1>2, <2>3 DEF Loaded
    <3> QED BY <2>1, <2>2, <2>3, <3>1, <3>2
            DEF PrefsTypeOK, CacheOutlivesReaders, ChainEndsInCache, DiskFollowsCache, ReadBack
  <2>4. CASE cache # None
    <3>1. cache' = cache
      BY <1>2, <2>4 DEF Loaded
    <3> QED BY <2>2, <3>1
            DEF PrefsTypeOK, CacheOutlivesReaders, ChainEndsInCache, DiskFollowsCache, ReadBack
  <2> QED BY <2>3, <2>4
<1> QED BY <1>1, <1>2

LEMMA CallPreserves ==
    ASSUME PrefsInv, NEW k \in Saves, CallStep(k) PROVE PrefsInv'
<1> USE DEF PrefsInv
<1>1. save[k] \in SaveType
  BY DEF PrefsTypeOK
<1>2. cache # None => cache.filters \in Maps /\ cache.steps \in Maps /\ cache \in Prefs
  BY DEF PrefsTypeOK, Prefs, Maps
<1>3. CASE Snapshots(k)
  <2> DEFINE suspended == [save[k] EXCEPT !.pc = "reload", !.snapshot = cache.filters]
  <2>1. suspended \in SaveType /\ cache # None
    BY <1>1, <1>2, <1>3 DEF Snapshots, SaveType
  <2>2. save' = [save EXCEPT ![k] = suspended] /\ UNCHANGED <<cache, disk, writes, writing, failed, made>>
    BY <1>3 DEF Snapshots
  <2> HIDE DEF suspended
  <2> QED BY <2>1, <2>2
          DEF PrefsTypeOK, CacheOutlivesReaders, ChainEndsInCache, DiskFollowsCache
<1>4. CASE SavesFilters(k)
  <2> DEFINE update == [save[k].snapshot EXCEPT ![save[k].target] = k]
             filters == [t \in Identities |-> IF update[t] # 0 THEN update[t] ELSE cache.filters[t]]
  <2>1. save[k].pc = "reload" /\ cache # None
    BY <1>4 DEF SavesFilters, CacheOutlivesReaders
  <2>2. save[k].snapshot \in Maps /\ k \in 0 .. MaxCalls
    BY <1>1, <2>1, PrefsAssumption DEF SaveType, Saves
  <2>3. update \in Maps
    BY <2>2 DEF Maps
  <2>4. filters \in Maps
    BY <1>2, <2>1, <2>3 DEF Maps
  <2>5. CommitPrefs(k, [cache EXCEPT !.filters = filters])
    BY <1>4 DEF SavesFilters
  <2> HIDE DEF filters
  <2>6. [cache EXCEPT !.filters = filters] \in Prefs
    BY <1>2, <2>1, <2>4 DEF Prefs, Maps
  <2> QED BY <2>1, <2>5, <2>6, CommitPreserves
<1>5. CASE SavesSteps(k)
  <2>1. save[k].pc = "load" /\ cache # None
    BY <1>5 DEF SavesSteps
  <2>2. CASE latest = k
    <3>1. CommitPrefs(k, [cache EXCEPT !.steps[save[k].target] = k])
      BY <1>5, <2>2 DEF SavesSteps
    <3>2. [cache EXCEPT !.steps[save[k].target] = k] \in Prefs
      <4> DEFINE steps == [cache.steps EXCEPT ![save[k].target] = k]
      <4>1. k \in 0 .. MaxCalls /\ cache.steps \in Maps
        BY <1>2, <2>1, PrefsAssumption DEF Saves
      <4>2. steps \in Maps
        BY <4>1 DEF Maps
      <4> HIDE DEF steps
      <4>3. [cache EXCEPT !.steps = steps] \in Prefs
        BY <1>2, <2>1, <4>2 DEF Prefs, Maps
      <4> QED BY <4>3 DEF steps
    <3> QED BY <2>1, <3>1, <3>2, CommitPreserves
  <2>3. CASE latest # k
    <3> DEFINE suspended == [pc |-> "none"]
    <3>1. suspended \in SaveType /\ suspended.pc = "none"
      BY DEF SaveType
    <3>2. save' = [save EXCEPT ![k] = suspended] /\ UNCHANGED <<cache, disk, writes, writing, failed, made>>
      BY <1>5, <2>3 DEF SavesSteps
    <3> HIDE DEF suspended
    <3> QED BY <3>1, <3>2
            DEF PrefsTypeOK, CacheOutlivesReaders, ChainEndsInCache, DiskFollowsCache
  <2> QED BY <2>2, <2>3
<1> QED BY <1>3, <1>4, <1>5 DEF CallStep

(* A caller that is answered is gone; the others are as they were.         *)
LEMMA AnsweredFrame ==
    ASSUME PrefsTypeOK, NEW v
    PROVE  /\ Answered(v) \in [Saves -> SaveType]
           /\ \A k \in Saves : Answered(v)[k].pc = "reload" => save[k].pc = "reload"
<1> DEFINE gone == [pc |-> "none"]
<1>1. gone \in SaveType /\ gone.pc = "none"
  BY DEF SaveType
<1>2. \A k \in Saves : save[k] \in SaveType
  BY DEF PrefsTypeOK
<1>3. Answered(v) = [k \in Saves |->
         IF save[k].pc = "saving" /\ v[save[k].kind][save[k].target] = k THEN gone ELSE save[k]]
  BY DEF Answered
<1> HIDE DEF gone
<1> QED BY <1>1, <1>2, <1>3

LEMMA WritePreserves ==
    ASSUME PrefsInv, WriteBegins \/ WriteEnds \/ WriteFails PROVE PrefsInv'
<1> USE DEF PrefsInv
<1>1. CASE WriteBegins
  BY <1>1 DEF WriteBegins, PrefsTypeOK, CacheOutlivesReaders, ChainEndsInCache, DiskFollowsCache
<1>2. ASSUME writes # <<>>, writes' = Tail(writes), save' = Answered(Head(writes)),
             UNCHANGED <<cache, made>>, disk' = disk \/ disk' = Head(writes),
             failed' \/ disk' = Head(writes), ~writing'
      PROVE  PrefsInv'
  <2>1. Head(writes) \in Prefs /\ writes' \in Seq(Prefs)
    BY <1>2 DEF PrefsTypeOK
  <2>2. /\ writes' = <<>> => Head(writes) = writes[Len(writes)]
        /\ writes' # <<>> => writes'[Len(writes')] = writes[Len(writes)]
    <3>1. /\ Len(writes') = Len(writes) - 1 /\ Len(writes) \in Nat \ {0}
          /\ \A i \in 1 .. Len(writes') : writes'[i] = writes[i + 1]
      BY <1>2, HeadTailProperties DEF PrefsTypeOK
    <3>2. CASE writes' = <<>>
      <4>1. Len(writes) = 1 /\ Head(writes) = writes[1]
        BY <3>1, <3>2 DEF PrefsTypeOK
      <4> QED BY <3>2, <4>1
    <3>3. CASE writes' # <<>>
      <4>1. Len(writes') \in 1 .. Len(writes')
        BY <2>1, <3>1, <3>3
      <4> QED BY <3>1, <3>3, <4>1
    <3> QED BY <3>2, <3>3
  <2>3. /\ save' \in [Saves -> SaveType]
        /\ \A k \in Saves : save'[k].pc = "reload" => save[k].pc = "reload"
    BY <1>2, AnsweredFrame
  <2>4. PrefsTypeOK' /\ CacheOutlivesReaders'
    BY <1>2, <2>1, <2>3 DEF PrefsTypeOK, CacheOutlivesReaders
  <2>5. ChainEndsInCache'
    BY <1>2, <2>2 DEF ChainEndsInCache
  <2>6. DiskFollowsCache'
    BY <1>2, <2>1, <2>2, PrefsValues DEF DiskFollowsCache, ChainEndsInCache, ReadBack
  <2> QED BY <1>2, <2>4, <2>5, <2>6
<1>3. CASE WriteEnds
  BY <1>2, <1>3 DEF WriteEnds
<1>4. CASE WriteFails
  BY <1>2, <1>4 DEF WriteFails
<1> QED BY <1>1, <1>3, <1>4

LEMMA RestartPreserves ==
    ASSUME PrefsInv, Restarts PROVE PrefsInv'
<1>1. NoSaves \in [Saves -> SaveType] /\ \A k \in Saves : NoSaves[k].pc = "none"
  BY DEF NoSaves, SaveType
<1> QED BY <1>1 DEF PrefsInv, Restarts, PrefsTypeOK, CacheOutlivesReaders, ChainEndsInCache,
                    DiskFollowsCache

LEMMA PrefsNextPreserves == PrefsInv /\ [PrefsNext]_prefsVars => PrefsInv'
<1> SUFFICES ASSUME PrefsInv, [PrefsNext]_prefsVars PROVE PrefsInv'
  OBVIOUS
<1>1. CASE UNCHANGED prefsVars
  BY <1>1 DEF prefsVars, PrefsInv, PrefsTypeOK, CacheOutlivesReaders, ChainEndsInCache,
              DiskFollowsCache
<1> QED BY <1>1, AskPreserves, LoadedPreserves, CallPreserves, WritePreserves, RestartPreserves
        DEF PrefsNext

(* The inductive invariant. *)
THEOREM PrefsInvariant == PrefsSafety => []PrefsInv
BY PrefsInitEstablishes, PrefsNextPreserves, PTL DEF PrefsSafety

(* However calls interleave, writes fail and the process restarts, an      *)
(* empty chain leaves the newest value on disk (prefs.mjs:27).             *)
THEOREM DiskNeverFallsBehind == PrefsSafety => []DiskFollowsCache
<1>1. PrefsInv => DiskFollowsCache
  BY DEF PrefsInv
<1> QED BY <1>1, PrefsInvariant, PTL

---------------------------------------------------------------------------
(* lib/runnerkit.mjs and lib/dataset.mjs, for any collectors, kits and       *)
(* requests: the installed CLI knows whatever the extension sends it, no     *)
(* directory outlives its use, and a gap in a dataset is explained.          *)

(* What the probe says of the kit. An upgrade adds to the kit, so that stays *)
(* true; what the probe could not read it takes not to be there.             *)
Told(p, k) ==
    /\ p.subcommands \subseteq DOMAIN k
    /\ p.timeline => "timeline" \in DOMAIN k
    /\ {"collect"} \subseteq p.subcommands => /\ p.flags \intersect Shared \subseteq k["collect"]
                                            /\ p.collectFlags \subseteq k["collect"]
    /\ {"report"} \subseteq p.subcommands => p.concurrencyFlags \subseteq k["report"]

IsProbe == memo # None /\ memo # Broken
Supports(subs) == IsProbe /\ subs \subseteq memo.subcommands

Views == {"view", "other view"}
Phases == {"idle", "probing", "collecting", "metadata", "runs", "jobs", "view", "fleet"}

Made(phase, request, warnings, base, view, sent, dataset) ==
    [phase |-> phase, request |-> request, warnings |-> warnings, base |-> base,
     view |-> view, sent |-> sent, dataset |-> dataset]
IsRecord(w) == w = Made(w.phase, w.request, w.warnings, w.base, w.view, w.sent, w.dataset)

WorkType(w) ==
    /\ IsRecord(w)
    /\ w.phase \in Phases /\ w.request \in Askable \union {None} /\ w.warnings \in SUBSET {"time zone"}
    /\ w.base \in Nat /\ w.view \in Views \union {None} /\ w.dataset \in HandedOut \union {None}

(* Before its snapshot is read, a collection has no dataset. While it is     *)
(* read into one, the collection holds a reference to the snapshot, and the  *)
(* dataset it may replace another; their views have different names.         *)
ReadsBase(w) == w.phase \in {"view", "fleet"}
Shares(w) ==
    /\ w.phase \notin {"idle", "view", "fleet"} => w.dataset = None
    /\ w.base = (IF ReadsBase(w) THEN 1 ELSE 0) + (IF w.dataset # None THEN 1 ELSE 0)
    /\ w.view # None => ReadsBase(w)
    /\ w.view # None /\ w.dataset # None => w.view # w.dataset.view
Rests(w) ==
    /\ w.phase = "idle" <=> w.request = None
    /\ w.phase \in {"idle", "probing"} /\ w.dataset = None => w.sent = None

(* What was begun, the probe has found possible; what it found no flag for,  *)
(* the collection says.                                                      *)
IsSupported(w) ==
    /\ w.phase \notin {"idle", "probing"} \/ w.dataset # None => Supports(Needed)
    /\ w.phase \in {"runs", "jobs", "view", "fleet"} \/ w.dataset # None => Supports({"runs"})
Explains(w) ==
    /\ w.phase = "fleet" => w.warnings = ReportWarnings(memo)
    /\ w.dataset # None /\ ~w.dataset.concurrency => "time zone" \in w.dataset.warnings

Says(w) == w.sent # None => KitAccepts(w.sent, RequestOf(w))

WorkOK(w) ==
    WorkType(w) /\ Shares(w) /\ Rests(w) /\ IsSupported(w) /\ Explains(w) /\ Says(w)

(* NothingIsLeft, name by name.                                              *)
Names == {"base"} \union Views
InUse(w, n) ==
    IF n = "base" THEN w.phase \notin {"idle", "probing"} \/ w.dataset # None
    ELSE n = w.view \/ (w.dataset # None /\ n = w.dataset.view)
Tidy ==
    /\ directories \subseteq Collectors \X Names
    /\ \A c \in Collectors, n \in Names : <<c, n>> \in directories <=> InUse(work[c], n)

KitInv ==
    /\ kit \in Kits
    /\ IsProbe => Told(memo, kit)
    /\ DOMAIN work = Collectors /\ \A c \in Collectors : WorkOK(work[c])
    /\ work = [c \in Collectors |-> work[c]]
    /\ Tidy

---------------------------------------------------------------------------
LEMMA NoneIsApart ==
    /\ None \notin Names /\ None \notin Askable /\ None \notin HandedOut
    /\ Requests \subseteq Askable
BY KitAssumption DEF Names, Views

(* The properties of the run are parts of the invariant.                     *)
LEMMA KitInvSays == KitInv => CollectionsAreAccountedFor
<1> SUFFICES ASSUME KitInv PROVE CollectionsAreAccountedFor
  OBVIOUS
<1>1. CommandsAreAccepted
  BY DEF KitInv, WorkOK, Says, CommandsAreAccepted
<1>2. GapsAreExplained
  BY DEF KitInv, WorkOK, Explains, GapsAreExplained
<1>3. NothingIsLeft
  <2>1. \A c \in Collectors : \A n : n \in NamesInUse(c) <=> n \in Names /\ InUse(work[c], n)
    <3> SUFFICES ASSUME NEW c \in Collectors, NEW n
                 PROVE  n \in NamesInUse(c) <=> n \in Names /\ InUse(work[c], n)
      OBVIOUS
    <3> DEFINE w == work[c]
    <3>1. w.view \in Views \union {None} /\ (w.dataset # None => w.dataset.view \in Views \union {None})
      BY DEF KitInv, WorkOK, WorkType, HandedOut, Views
    <3>2. {d.view : d \in {w.dataset} \ {None}} = IF w.dataset = None THEN {} ELSE {w.dataset.view}
      OBVIOUS
    <3>3. "base" \notin Views /\ None \notin Views
      BY NoneIsApart DEF Names, Views
    <3> QED BY <3>1, <3>2, <3>3, NoneIsApart DEF NamesInUse, InUse, Names, Phase
  <2>2. \A x : x \in directories <=> \E c \in Collectors : \E n \in NamesInUse(c) : x = <<c, n>>
    BY <2>1 DEF KitInv, Tidy
  <2>3. \A x : x \in UNION {{c} \X NamesInUse(c) : c \in Collectors}
                  <=> \E c \in Collectors : \E n \in NamesInUse(c) : x = <<c, n>>
    OBVIOUS
  <2> QED BY <2>2, <2>3 DEF NothingIsLeft
<1> QED BY <1>1, <1>2, <1>3 DEF CollectionsAreAccountedFor

(* A step of one collector keeps the invariant if it leaves that collector   *)
(* sound and changes no directory but its own.                               *)
Tidies(c, w) ==
    /\ directories' \subseteq Collectors \X Names
    /\ \A b \in Collectors \ {c}, n \in Names : <<b, n>> \in directories' <=> <<b, n>> \in directories
    /\ \A n \in Names : <<c, n>> \in directories' <=> InUse(w, n)

LEMMA OneCollector ==
    ASSUME KitInv, UNCHANGED <<kit, memo>>, NEW c \in Collectors, NEW w, Becomes(c, w),
           WorkOK(w), Tidies(c, w)
    PROVE  KitInv'
<1>1. /\ work' = [b \in Collectors |-> IF b = c THEN w ELSE work[b]]
  BY DEF KitInv, Becomes
<1>2. \A v : WorkOK(v) => WorkOK(v)'
  BY ZenonT(60) DEF WorkOK, Shares, ReadsBase, Rests, IsSupported, Supports, IsProbe, Explains, ReportWarnings,
         KnowsTimeZone, Says, KitAccepts, RequestOf
<1>3. \A b \in Collectors : WorkOK(work[b])'
  BY <1>1, <1>2 DEF KitInv
<1>4. Tidy'
  BY <1>1 DEF KitInv, Tidy, Tidies, InUse
<1> QED BY <1>1, <1>3, <1>4 DEF KitInv, IsProbe, Told

---------------------------------------------------------------------------
(* Command lines. The kit knows what the probe takes for granted.            *)
LEMMA KitKnows ==
    ASSUME KitInv, Supports(Needed), NEW sub \in DOMAIN TakenForGranted, sub \in DOMAIN kit
    PROVE  TakenForGranted[sub] \subseteq kit[sub]
<1>1. "collect" \in DOMAIN kit
  BY DEF KitInv, Told, Supports, Needed
<1> QED BY <1>1, KitAssumption DEF KitInv

LEMMA Granted ==
    /\ DOMAIN TakenForGranted = {"collect", "report", "snapshot", "runs", "jobs", "steps", "export", "timeline"}
    /\ TakenForGranted["collect"] = {"--type org", "--type repo", "--refresh", "--all-attempts", "--pricing", "--usage", "--output"}
    /\ TakenForGranted["report"] = {"--input", "--section"}
    /\ TakenForGranted["snapshot"] = {"--input", "--output", "--since", "--until"}
    /\ TakenForGranted["runs"] = {"--input", "--format"}
    /\ TakenForGranted["jobs"] = {"--input", "--format", "--kind"}
    /\ TakenForGranted["steps"] = {"--input", "--format", "--kind"}
    /\ TakenForGranted["export"] = {"--input", "--format"}
    /\ TakenForGranted["timeline"] = {"--input", "--format", "--attempt"}
BY DEF TakenForGranted

(* What reads a snapshot has the flags of no collection; the report has the  *)
(* time zone only if the probe found it.                                     *)
LEMMA ReadingIsAccepted ==
    ASSUME KitInv, Supports(Needed), NEW r,
           NEW sub \in {"runs", "jobs", "steps", "export", "timeline", "snapshot"}, sub \in DOMAIN kit,
           NEW more, {"--input"} \union more = TakenForGranted[sub]
                     \/ (sub = "snapshot" /\ more \in {{}, {"--output", "--since", "--until"}})
    PROVE  KitAccepts(InputCommand(sub, more), r)
<1>1. TakenForGranted[sub] \subseteq kit[sub]
  BY KitKnows, Granted
<1>2. "--input" \in TakenForGranted[sub] /\ ({"--input"} \union more) \subseteq TakenForGranted[sub]
  BY Granted
<1>3. \A f \in TakenForGranted[sub] : f \notin {"--type repo", "--include-repo", "--exclude-repo"}
  BY Granted
<1>4. sub # "snapshot" => TakenForGranted[sub] \intersect OfACollection = {}
  BY Granted DEF OfACollection
<1> QED BY <1>1, <1>2, <1>3, <1>4 DEF KitAccepts, InputCommand

LEMMA ReportIsAccepted ==
    ASSUME KitInv, Supports(Needed), NEW r
    PROVE  KitAccepts(ReportCommand(memo, r), r)
<1>1. "report" \in DOMAIN kit /\ memo.concurrencyFlags \subseteq kit["report"]
  BY DEF KitInv, Told, Supports, Needed
<1>2. {"--input", "--section"} \subseteq kit["report"]
  BY <1>1, KitKnows, Granted
<1>3. KnowsTimeZone(memo) => "--time-zone" \in kit["report"]
  BY <1>1 DEF KnowsTimeZone
<1> QED BY <1>1, <1>2, <1>3 DEF KitAccepts, ReportCommand, InputCommand, OfACollection

LEMMA CollectIsAccepted ==
    ASSUME KitInv, Supports(Needed), NEW r \in Askable, r.until => "--until" \in memo.flags
    PROVE  KitAccepts(SnapshotCommand(memo, r), r)
<1>1. /\ "collect" \in DOMAIN kit /\ memo.collectFlags \subseteq kit["collect"]
      /\ memo.flags \intersect Shared \subseteq kit["collect"]
  BY DEF KitInv, Told, Supports, Needed
<1>2. TakenForGranted["collect"] \subseteq kit["collect"]
  BY <1>1, KitKnows, Granted
<1> DEFINE line == SnapshotCommand(memo, r)
<1>3. BaseFlags(memo, r) \subseteq kit["collect"]
  <2>1. (IF r.until THEN {"--until"} ELSE {}) \subseteq kit["collect"]
    BY <1>1 DEF Shared
  <2>2. (IF RunnerTypeApplies(r) THEN {IF r.runnerType = "org" THEN "--type org" ELSE "--type repo"} ELSE {})
            \subseteq kit["collect"]
    BY <1>2, Granted
  <2>3. (IF r.org THEN RepoFilters(r) \intersect RepoFilterSupport(memo) ELSE {}) \subseteq kit["collect"]
    BY <1>1 DEF Shared, RepoFilterSupport
  <2>4. (IF r.force THEN {"--refresh"} ELSE {}) \subseteq kit["collect"]
    BY <1>2, Granted
  <2> QED BY <2>1, <2>2, <2>3, <2>4 DEF BaseFlags
<1>4. line.sub = "collect" /\ line.flags \subseteq kit["collect"]
  BY <1>1, <1>2, <1>3, Granted DEF SnapshotCommand
<1>5. "--input" \notin line.flags
  BY DEF SnapshotCommand, BaseFlags, RepoFilters, RepoFilterSupport
<1>6. line.flags \intersect (IF r.org THEN {"--type repo"} ELSE {"--include-repo", "--exclude-repo"}) = {}
  <2>1. CASE r.org
    BY <2>1 DEF SnapshotCommand, BaseFlags, RepoFilters, RepoFilterSupport, RunnerTypeApplies
  <2>2. CASE ~r.org
    BY <2>2 DEF SnapshotCommand, BaseFlags
  <2> QED BY <2>1, <2>2
<1> QED BY <1>1, <1>4, <1>5, <1>6 DEF KitAccepts

---------------------------------------------------------------------------
(* The steps of the kit and of the probe.                                    *)
LEMMA KitStarts == ToolkitInit => KitInv
<1> SUFFICES ASSUME ToolkitInit PROVE KitInv
  OBVIOUS
<1>1. \A c \in Collectors : work[c] = Idle0
  BY DEF ToolkitInit
<1>2. WorkOK(Idle0)
  BY NoneIsApart DEF IsRecord, Made, WorkOK, WorkType, Idle0, Phases, Shares, ReadsBase, Rests, IsSupported, Explains, Says
<1>3. \A n \in Names : ~InUse(Idle0, n)
  BY NoneIsApart DEF InUse, Idle0
<1> QED BY <1>1, <1>2, <1>3 DEF ToolkitInit, KitInv, IsProbe, Tidy

LEMMA UpgradeKeeps ==
    ASSUME KitInv, NEW k \in Kits, Upgrade(k)
    PROVE  KitInv'
<1>1. /\ UNCHANGED <<memo, directories, work>> /\ kit' = k
      /\ \A sub \in DOMAIN kit : sub \in DOMAIN k /\ kit[sub] \subseteq k[sub]
  BY DEF Upgrade
<1>2. Told(memo, kit) => Told(memo, k)
  BY <1>1 DEF Told
<1>3. \A w : WorkOK(w) => WorkOK(w)'
  BY <1>1, ZenonT(60) DEF WorkOK, Shares, ReadsBase, Rests, IsSupported, Supports, IsProbe, Explains, ReportWarnings,
         KnowsTimeZone, Says, KitAccepts, RequestOf
<1> QED BY <1>1, <1>2, <1>3 DEF KitInv, IsProbe, Tidy, InUse

LEMMA ProbeTells ==
    ASSUME KitInv, NEW lost \in SUBSET HelpTexts, Probe(kit, lost) # Broken
    PROVE  Told(Probe(kit, lost), kit)
<1>1. CASE "metrics" \in lost
  BY <1>1 DEF Probe, Told
<1>2. CASE "metrics" \notin lost
  <2> DEFINE report == IF "report" \in DOMAIN kit THEN "report" ELSE "concurrency"
             dated == "timeline" \in DOMAIN kit /\ "job" \notin lost
  <2>1. ~(report \in DOMAIN kit /\ "concurrency" \in lost)
    BY <1>2 DEF Probe
  <2>2. Probe(kit, lost) =
          [available |-> TRUE, subcommands |-> DOMAIN kit \ {"timeline"},
           timeline |-> dated,
           flags |-> FlagsOf(kit, "summary", lost, "summary"),
           collectFlags |-> FlagsOf(kit, "collect", lost, "collect"),
           concurrencyFlags |-> FlagsOf(kit, report, lost, "concurrency")]
    BY <1>2, <2>1 DEF Probe
  <2>3. "collect" \in DOMAIN kit => /\ FlagsOf(kit, "summary", lost, "summary") \intersect Shared \subseteq kit["collect"]
                                   /\ FlagsOf(kit, "collect", lost, "collect") \subseteq kit["collect"]
    BY KitAssumption DEF KitInv, FlagsOf
  <2>4. "report" \in DOMAIN kit => FlagsOf(kit, report, lost, "concurrency") \subseteq kit["report"]
    BY DEF FlagsOf
  <2> DEFINE p == Probe(kit, lost)
  <2>5. p.subcommands = DOMAIN kit \ {"timeline"} /\ (p.timeline => "timeline" \in DOMAIN kit)
    <3>1. p.subcommands = DOMAIN kit \ {"timeline"}
      BY <2>2
    <3>2. p.timeline = dated
      <4> HIDE DEF dated, report
      <4> QED BY <2>2
    <3> QED BY <3>1, <3>2
  <2>6. /\ p.flags = FlagsOf(kit, "summary", lost, "summary")
        /\ p.collectFlags = FlagsOf(kit, "collect", lost, "collect")
        /\ p.concurrencyFlags = FlagsOf(kit, report, lost, "concurrency")
    BY <2>2
  <2> HIDE DEF p, report
  <2>7. Told(p, kit)
    BY <2>3, <2>4, <2>5, <2>6 DEF Told
  <2> QED BY <2>7 DEF p
<1> QED BY <1>1, <1>2

LEMMA ProbeKeeps ==
    ASSUME KitInv, NEW lost \in SUBSET HelpTexts, ProbeKit(lost)
    PROVE  KitInv'
<1>1. memo = None /\ memo' = Probe(kit, lost) /\ UNCHANGED <<kit, directories, work>>
  BY DEF ProbeKit
<1>2. IsProbe' => Told(memo, kit)'
  BY <1>1, ProbeTells DEF IsProbe
<1>3. \A c \in Collectors : WorkOK(work[c])'
  <2> SUFFICES ASSUME NEW c \in Collectors PROVE WorkOK(work[c])'
    OBVIOUS
  <2>1. work[c].phase \in {"idle", "probing"} /\ work[c].dataset = None
    BY <1>1 DEF KitInv, WorkOK, IsSupported, Supports, IsProbe
  <2> QED BY <1>1, <2>1 DEF KitInv, WorkOK, Shares, ReadsBase, Rests, IsSupported, Explains, Says, WorkType
<1> QED BY <1>1, <1>2, <1>3 DEF KitInv, Tidy, InUse

---------------------------------------------------------------------------
(* Which directories a step of a collector has left.                         *)
LEMMA TidyStays ==
    ASSUME KitInv, NEW c \in Collectors, NEW w, UNCHANGED directories,
           \A n \in Names : InUse(w, n) <=> InUse(work[c], n)
    PROVE  Tidies(c, w)
BY DEF KitInv, Tidy, Tidies

LEMMA TidyAdds ==
    ASSUME KitInv, NEW c \in Collectors, NEW w, NEW m \in Names,
           directories' = directories \union {<<c, m>>},
           \A n \in Names : InUse(w, n) <=> InUse(work[c], n) \/ n = m
    PROVE  Tidies(c, w)
BY DEF KitInv, Tidy, Tidies

LEMMA TidyDrops ==
    ASSUME KitInv, NEW c \in Collectors, NEW w, NEW left, NEW view,
           directories' = WithoutBase(WithoutView(directories, c, view), c, left),
           \A n \in Names : InUse(w, n) <=> InUse(work[c], n) /\ n # view /\ (n = "base" => left # 0)
    PROVE  Tidies(c, w)
<1>1. directories' \subseteq Collectors \X Names
  BY DEF KitInv, Tidy, WithoutBase, WithoutView
<1>2. \A b \in Collectors \ {c}, n \in Names : <<b, n>> \in directories' <=> <<b, n>> \in directories
  BY DEF WithoutBase, WithoutView
<1>3. \A n \in Names : <<c, n>> \in directories' <=> <<c, n>> \in directories /\ n # view /\ (n = "base" => left # 0)
  BY DEF WithoutBase, WithoutView
<1> QED BY <1>1, <1>2, <1>3 DEF KitInv, Tidy, Tidies

(* The collection, a step of which is to be shown sound.                     *)
LEMMA WorkIsOK ==
    ASSUME KitInv, NEW c \in Collectors
    PROVE  /\ WorkOK(work[c]) /\ (IsProbe => Told(memo, kit))
           /\ IsRecord(work[c])
           /\ work[c].request \in Askable \union {None} /\ work[c].dataset \in HandedOut \union {None}
BY DEF KitInv, WorkOK, WorkType

LEMMA MadeHas ==
    ASSUME NEW a, NEW b, NEW d, NEW e, NEW f, NEW g, NEW h, NEW w, w = Made(a, b, d, e, f, g, h)
    PROVE  /\ w.phase = a /\ w.request = b /\ w.warnings = d /\ w.base = e
           /\ w.view = f /\ w.sent = g /\ w.dataset = h
           /\ IsRecord(w)
BY DEF Made, IsRecord

LEMMA RecordsChange ==
    ASSUME NEW v, IsRecord(v), NEW p, NEW x
    PROVE  /\ [v EXCEPT !.phase = p] = Made(p, v.request, v.warnings, v.base, v.view, v.sent, v.dataset)
           /\ [v EXCEPT !.request = x] = Made(v.phase, x, v.warnings, v.base, v.view, v.sent, v.dataset)
           /\ [v EXCEPT !.warnings = x] = Made(v.phase, v.request, x, v.base, v.view, v.sent, v.dataset)
           /\ [v EXCEPT !.base = x] = Made(v.phase, v.request, v.warnings, x, v.view, v.sent, v.dataset)
           /\ [v EXCEPT !.view = x] = Made(v.phase, v.request, v.warnings, v.base, x, v.sent, v.dataset)
           /\ [v EXCEPT !.sent = x] = Made(v.phase, v.request, v.warnings, v.base, v.view, x, v.dataset)
BY DEF IsRecord, Made

LEMMA RecordsChangeTwice ==
    ASSUME NEW v, IsRecord(v), NEW p, NEW x
    PROVE  /\ [v EXCEPT !.phase = p, !.request = x] = Made(p, x, v.warnings, v.base, v.view, v.sent, v.dataset)
           /\ [v EXCEPT !.phase = p, !.sent = x] = Made(p, v.request, v.warnings, v.base, v.view, x, v.dataset)
<1> DEFINE u == [v EXCEPT !.phase = p]
<1>1. /\ [v EXCEPT !.phase = p, !.request = x] = [u EXCEPT !.request = x]
      /\ [v EXCEPT !.phase = p, !.sent = x] = [u EXCEPT !.sent = x]
  OBVIOUS
<1>2. u = Made(p, v.request, v.warnings, v.base, v.view, v.sent, v.dataset)
  BY RecordsChange
<1> HIDE DEF u
<1>3. /\ [u EXCEPT !.request = x] = Made(p, x, v.warnings, v.base, v.view, v.sent, v.dataset)
      /\ [u EXCEPT !.sent = x] = Made(p, v.request, v.warnings, v.base, v.view, x, v.dataset)
  BY <1>2 DEF Made
<1> QED BY <1>1, <1>3, Zenon

LEMMA BaseChanges ==
    ASSUME NEW v, IsRecord(v), NEW p, NEW x
    PROVE  [v EXCEPT !.base = p, !.request = x] = Made(v.phase, x, v.warnings, p, v.view, v.sent, v.dataset)
<1> DEFINE u == [v EXCEPT !.base = p]
<1>1. [v EXCEPT !.base = p, !.request = x] = [u EXCEPT !.request = x]
  OBVIOUS
<1>2. u = Made(v.phase, v.request, v.warnings, p, v.view, v.sent, v.dataset)
  BY RecordsChange
<1> HIDE DEF u
<1>3. [u EXCEPT !.request = x] = Made(v.phase, x, v.warnings, p, v.view, v.sent, v.dataset)
  BY <1>2 DEF Made
<1> QED BY <1>1, <1>3, Zenon

LEMMA ViewChanges ==
    ASSUME NEW v, IsRecord(v), NEW p, NEW x, NEW y
    PROVE  [v EXCEPT !.phase = p, !.view = x, !.sent = y] = Made(p, v.request, v.warnings, v.base, x, y, v.dataset)
<1> DEFINE u == [v EXCEPT !.phase = p]
           t == [u EXCEPT !.view = x]
<1>1. [v EXCEPT !.phase = p, !.view = x, !.sent = y] = [t EXCEPT !.sent = y]
  OBVIOUS
<1>2. u = Made(p, v.request, v.warnings, v.base, v.view, v.sent, v.dataset)
  BY RecordsChange
<1> HIDE DEF u
<1>3. t = Made(p, v.request, v.warnings, v.base, x, v.sent, v.dataset)
  BY <1>2 DEF Made
<1> HIDE DEF t
<1>4. [t EXCEPT !.sent = y] = Made(p, v.request, v.warnings, v.base, x, y, v.dataset)
  BY <1>3 DEF Made
<1> QED BY <1>1, <1>4, Zenon

LEMMA RecordsChangeThrice ==
    ASSUME NEW v, IsRecord(v), NEW p, NEW x, NEW y
    PROVE  [v EXCEPT !.phase = p, !.sent = x, !.warnings = y] = Made(p, v.request, y, v.base, v.view, x, v.dataset)
<1> DEFINE u == [v EXCEPT !.phase = p]
           t == [u EXCEPT !.sent = x]
<1>1. [v EXCEPT !.phase = p, !.sent = x, !.warnings = y] = [t EXCEPT !.warnings = y]
  OBVIOUS
<1>2. u = Made(p, v.request, v.warnings, v.base, v.view, v.sent, v.dataset)
  BY RecordsChange
<1> HIDE DEF u
<1>3. t = Made(p, v.request, v.warnings, v.base, v.view, x, v.dataset)
  BY <1>2 DEF Made
<1> HIDE DEF t
<1>4. [t EXCEPT !.warnings = y] = Made(p, v.request, y, v.base, v.view, x, v.dataset)
  BY <1>3 DEF Made
<1> QED BY <1>1, <1>4 DEF u, t

LEMMA IdleIsOK ==
    ASSUME KitInv, NEW c \in Collectors, NEW w,
           w = [Idle0 EXCEPT !.base = IF work[c].dataset = None THEN 0 ELSE 1, !.dataset = work[c].dataset]
    PROVE  WorkOK(w)
<1>1. WorkOK(work[c]) 
  BY WorkIsOK
<1>2. /\ w.phase = "idle" /\ w.request = None /\ w.warnings = {} /\ w.view = None /\ w.sent = None
      /\ w.base = IF work[c].dataset = None THEN 0 ELSE 1
      /\ w.dataset = work[c].dataset
      /\ IsRecord(w)
  BY DEF Idle0, IsRecord, Made
<1>3. WorkType(w)
  BY <1>1, <1>2, ZenonT(60) DEF WorkOK, WorkType, Phases, IsRecord, Made
<1>4. Shares(w) /\ Rests(w) /\ Says(w)
  BY <1>2 DEF Shares, ReadsBase, Rests, Says
<1>5. IsSupported(w) /\ Explains(w)
  BY <1>1, <1>2 DEF WorkOK, IsSupported, Explains
<1> QED BY <1>3, <1>4, <1>5 DEF WorkOK

LEMMA CollectsForKeeps ==
    ASSUME KitInv, NEW c \in Collectors, NEW r \in Requests, CollectsFor(c, r)
    PROVE  KitInv'
<1> DEFINE w == [work[c] EXCEPT !.phase = "probing", !.request = r]
<1>1. /\ work[c].phase = "idle" /\ work[c].dataset = None /\ Becomes(c, w)
      /\ UNCHANGED <<kit, memo, directories>>
  BY DEF CollectsFor, Phase
<1>0. w = Made("probing", r, work[c].warnings, work[c].base, work[c].view, work[c].sent, work[c].dataset)
  BY WorkIsOK, RecordsChangeTwice
<1> HIDE DEF w
<1>2. /\ w.phase = "probing" /\ w.request = r /\ w.warnings = work[c].warnings /\ w.base = work[c].base
      /\ w.view = work[c].view /\ w.sent = work[c].sent /\ w.dataset = None
      /\ IsRecord(w)
  BY <1>0, <1>1 DEF Made, IsRecord
<1>3. r \in Askable /\ r # None
  BY NoneIsApart
<1>4. WorkOK(w)
  BY <1>1, <1>2, <1>3, WorkIsOK
     DEF WorkOK, WorkType, Phases, Shares, ReadsBase, Rests, IsSupported, Explains, Says
<1>5. Tidies(c, w)
  BY <1>1, <1>2, TidyStays DEF InUse
<1> QED BY <1>1, <1>4, <1>5, OneCollector

LEMMA FailsKeeps ==
    ASSUME KitInv, NEW c \in Collectors, Fails(c)
    PROVE  KitInv'
<1> DEFINE left == IF work[c].base > 0 THEN work[c].base - 1 ELSE 0
           w == [Idle0 EXCEPT !.base = left, !.dataset = work[c].dataset]
<1>1. /\ work[c].phase \notin {"idle", "probing"} /\ Becomes(c, w)
      /\ directories' = WithoutBase(WithoutView(directories, c, work[c].view), c, left)
      /\ UNCHANGED <<kit, memo>>
  BY DEF Fails, Phase
<1>2. left = IF work[c].dataset = None THEN 0 ELSE 1
  <2>1. /\ work[c].phase \notin {"idle", "view", "fleet"} => work[c].dataset = None
        /\ work[c].base = (IF ReadsBase(work[c]) THEN 1 ELSE 0) + (IF work[c].dataset # None THEN 1 ELSE 0)
    BY WorkIsOK DEF WorkOK, Shares
  <2> QED BY <1>1, <2>1 DEF ReadsBase
<1>3. WorkOK(w)
  BY <1>2, IdleIsOK
<1>4. Tidies(c, w)
  <2>1. /\ w.phase = "idle" /\ w.view = None /\ w.dataset = work[c].dataset
    BY DEF Idle0
  <2> HIDE DEF w, left
  <2>2. \A n \in Names : InUse(w, n) <=> InUse(work[c], n) /\ n # work[c].view /\ (n = "base" => left # 0)
    <3> SUFFICES ASSUME NEW n \in Names
                 PROVE  InUse(w, n) <=> InUse(work[c], n) /\ n # work[c].view /\ (n = "base" => left # 0)
      OBVIOUS
    <3>1. None # n /\ "base" \notin Views
      BY NoneIsApart DEF Names, Views
    <3>2. work[c].view \in Views \union {None} /\ None # "base"
      BY WorkIsOK, NoneIsApart DEF WorkOK, WorkType, Names
    <3>3. work[c].dataset # None => work[c].view = None \/ work[c].view # work[c].dataset.view
      BY WorkIsOK DEF WorkOK, Shares
    <3> QED BY <1>1, <1>2, <2>1, <3>1, <3>2, <3>3 DEF InUse
  <2> QED BY <1>1, <2>2, TidyDrops
<1> QED BY <1>1, <1>3, <1>4, OneCollector

(* A collection that goes on, with a command the kit accepts.                *)
LEMMA NextKeeps ==
    ASSUME KitInv, NEW c \in Collectors, NEW phase \in {"collecting", "metadata", "runs"},
           NEW next \in {"metadata", "runs", "jobs"}, NEW sent, Next0(c, phase, next, sent),
           \A r : KitAccepts(sent, r), next # "metadata" => Supports({"runs"})
    PROVE  KitInv'
<1> DEFINE w == [work[c] EXCEPT !.phase = next, !.sent = sent]
<1>1. /\ work[c].phase = phase /\ Becomes(c, w) /\ UNCHANGED <<kit, memo, directories>>
  BY DEF Next0, Phase
<1>2. w = Made(next, work[c].request, work[c].warnings, work[c].base, work[c].view, sent, work[c].dataset)
  BY WorkIsOK, RecordsChangeTwice
<1> HIDE DEF w
<1>3. /\ w.phase = next /\ w.request = work[c].request /\ w.warnings = work[c].warnings
      /\ w.base = work[c].base /\ w.view = work[c].view /\ w.sent = sent /\ w.dataset = work[c].dataset
      /\ IsRecord(w)
  BY <1>2 DEF Made, IsRecord
<1>4. WorkOK(work[c])
  BY WorkIsOK
<1>5. WorkType(w)
  BY <1>3, <1>4 DEF WorkOK, WorkType, Phases
<1>6. Shares(w) /\ Rests(w)
  BY <1>1, <1>3, <1>4 DEF WorkOK, Shares, ReadsBase, Rests
<1>7. IsSupported(w) /\ Explains(w)
  BY <1>1, <1>3, <1>4 DEF WorkOK, IsSupported, Explains, Shares
<1>8. Says(w)
  BY <1>3 DEF Says
<1>9. Tidies(c, w)
  BY <1>1, <1>3, TidyStays DEF InUse
<1> QED BY <1>1, <1>5, <1>6, <1>7, <1>8, <1>9, OneCollector DEF WorkOK

LEMMA SnapshotTakenKeeps ==
    ASSUME KitInv, NEW c \in Collectors, SnapshotTaken(c)
    PROVE  KitInv'
<1>1. Next0(c, "collecting", "metadata", InputCommand("snapshot", {}))
  BY DEF SnapshotTaken
<1>2. Supports(Needed) /\ "snapshot" \in DOMAIN kit
  <2>1. Supports(Needed)
    BY <1>1, WorkIsOK DEF Next0, Phase, WorkOK, IsSupported
  <2> QED BY <2>1 DEF KitInv, Told, Supports, Needed
<1>3. \A r : KitAccepts(InputCommand("snapshot", {}), r)
  BY <1>2, ReadingIsAccepted
<1> QED BY <1>1, <1>3, NextKeeps

LEMMA MetadataReadKeeps ==
    ASSUME KitInv, NEW c \in Collectors, MetadataRead(c)
    PROVE  KitInv'
<1>1. Next0(c, "metadata", "runs", InputCommand("runs", {"--format"})) /\ "runs" \in memo.subcommands
  BY DEF MetadataRead
<1>2. Supports(Needed)
  BY <1>1, WorkIsOK DEF Next0, Phase, WorkOK, IsSupported
<1>3. Supports({"runs"}) /\ "runs" \in DOMAIN kit
  BY <1>1, <1>2 DEF KitInv, Told, Supports
<1>4. \A r : KitAccepts(InputCommand("runs", {"--format"}), r)
  BY <1>2, <1>3, ReadingIsAccepted, Granted
<1> QED BY <1>1, <1>3, <1>4, NextKeeps

LEMMA RunsReadKeeps ==
    ASSUME KitInv, NEW c \in Collectors, RunsRead(c)
    PROVE  KitInv'
<1>1. Next0(c, "runs", "jobs", InputCommand("jobs", {"--format", "--kind"}))
  BY DEF RunsRead
<1>2. Supports(Needed) /\ Supports({"runs"})
  BY <1>1, WorkIsOK DEF Next0, Phase, WorkOK, IsSupported
<1>3. "jobs" \in DOMAIN kit
  BY <1>2, KitAssumption DEF KitInv, Told, Supports, Needed
<1>4. {"--input"} \union {"--format", "--kind"} = TakenForGranted["jobs"]
  BY Granted
<1>5. \A r : KitAccepts(InputCommand("jobs", {"--format", "--kind"}), r)
  BY <1>2, <1>3, <1>4, ReadingIsAccepted
<1> QED BY <1>1, <1>2, <1>5, NextKeeps

LEMMA ProbedKeeps ==
    ASSUME KitInv, NEW c \in Collectors, Probed(c)
    PROVE  KitInv'
<1> DEFINE w == [work[c] EXCEPT !.phase = "collecting", !.sent = SnapshotCommand(memo, work[c].request)]
<1>1. /\ work[c].phase = "probing" /\ memo # None /\ UNCHANGED <<kit, memo>>
      /\ \/ Becomes(c, Idle0) /\ UNCHANGED directories
         \/ /\ memo # Broken /\ Needed \subseteq memo.subcommands
            /\ work[c].request.until => "--until" \in memo.flags
            /\ Becomes(c, w) /\ directories' = directories \union {<<c, "base">>}
  BY DEF Probed, Phase
<1>2. /\ WorkOK(work[c]) /\ work[c].dataset = None /\ work[c].view = None /\ work[c].base = 0
      /\ work[c].request \in Askable
  BY <1>1, WorkIsOK DEF WorkOK, Shares, ReadsBase, Rests
<1>3. CASE Becomes(c, Idle0) /\ UNCHANGED directories
  <2>1. /\ Idle0.phase = "idle" /\ Idle0.view = None /\ Idle0.dataset = None
        /\ Idle0 = [Idle0 EXCEPT !.base = IF work[c].dataset = None THEN 0 ELSE 1, !.dataset = work[c].dataset]
    <3>1. (IF work[c].dataset = None THEN 0 ELSE 1) = 0 /\ work[c].dataset = None
      BY <1>2
    <3>2. Idle0 = [Idle0 EXCEPT !.base = 0, !.dataset = None]
      <4> DEFINE u == [Idle0 EXCEPT !.base = 0]
      <4>1. u = Idle0 /\ [Idle0 EXCEPT !.dataset = None] = Idle0
        BY DEF Idle0
      <4>2. [Idle0 EXCEPT !.base = 0, !.dataset = None] = [u EXCEPT !.dataset = None]
        OBVIOUS
      <4> QED BY <4>1, <4>2, Zenon
    <3>3. Idle0 = [Idle0 EXCEPT !.base = IF work[c].dataset = None THEN 0 ELSE 1, !.dataset = work[c].dataset]
      BY <3>1, <3>2
    <3> QED BY <3>3 DEF Idle0
  <2>2. WorkOK(Idle0)
    BY <2>1, IdleIsOK
  <2>3. Tidies(c, Idle0)
    BY <1>1, <1>2, <1>3, <2>1, TidyStays DEF InUse
  <2> QED BY <1>1, <1>3, <2>2, <2>3, OneCollector
<1>4. CASE /\ memo # Broken /\ Needed \subseteq memo.subcommands
           /\ work[c].request.until => "--until" \in memo.flags
           /\ Becomes(c, w) /\ directories' = directories \union {<<c, "base">>}
  <2>1. w = Made("collecting", work[c].request, work[c].warnings, work[c].base, work[c].view,
                 SnapshotCommand(memo, work[c].request), work[c].dataset)
    BY WorkIsOK, RecordsChangeTwice
  <2>2. Becomes(c, w)
    BY <1>4
  <2> HIDE DEF w
  <2>3. /\ w.phase = "collecting" /\ w.request = work[c].request /\ w.warnings = work[c].warnings
        /\ w.base = 0 /\ w.view = None /\ w.sent = SnapshotCommand(memo, work[c].request) /\ w.dataset = None
        /\ IsRecord(w)
    BY <1>2, <2>1 DEF Made, IsRecord
  <2>4. Supports(Needed)
    BY <1>1, <1>4 DEF Supports, IsProbe
  <2>5. KitAccepts(SnapshotCommand(memo, work[c].request), work[c].request)
    BY <1>2, <1>4, <2>4, CollectIsAccepted
  <2>6. WorkType(w)
    BY <1>2, <2>3 DEF WorkOK, WorkType, Phases
  <2>7. Shares(w) /\ Rests(w)
    BY <1>2, <2>3, NoneIsApart DEF Shares, ReadsBase, Rests
  <2>8. IsSupported(w) /\ Explains(w)
    BY <2>3, <2>4 DEF IsSupported, Explains
  <2>9. Says(w)
    BY <1>2, <2>3, <2>5, NoneIsApart DEF Says, RequestOf
  <2>10. Tidies(c, w)
    <3>1. "base" \in Names /\ \A n \in Names : n # None
      BY NoneIsApart DEF Names
    <3>2. \A n \in Names : InUse(w, n) <=> InUse(work[c], n) \/ n = "base"
      BY <1>1, <1>2, <2>3, <3>1 DEF InUse
    <3> QED BY <1>4, <3>1, <3>2, TidyAdds
  <2> QED BY <1>1, <2>2, <2>6, <2>7, <2>8, <2>9, <2>10, OneCollector DEF WorkOK
<1> QED BY <1>1, <1>3, <1>4

(* A collection whose fleet report is being read.                            *)
LEMMA FleetIsOK ==
    ASSUME KitInv, NEW c \in Collectors, NEW w, IsRecord(w), w.phase = "fleet", w.request \in Askable,
           w.warnings = ReportWarnings(memo), w.sent = ReportCommand(memo, w.request),
           w.dataset = work[c].dataset, w.base = 1 + (IF w.dataset # None THEN 1 ELSE 0),
           w.view \in Views \union {None}, w.view # None /\ w.dataset # None => w.view # w.dataset.view,
           Supports(Needed), Supports({"runs"})
    PROVE  WorkOK(w)
<1>1. w.warnings \in SUBSET {"time zone"}
  BY DEF ReportWarnings
<1>2. w.dataset \in HandedOut \union {None}
  BY WorkIsOK
<1>3. WorkType(w)
  <2>1. w.base \in Nat
    OBVIOUS
  <2>2. w.phase \in Phases
    BY DEF Phases
  <2> QED BY <1>1, <1>2, <2>1, <2>2 DEF WorkType
<1>4. Shares(w) /\ Rests(w)
  BY NoneIsApart DEF Shares, ReadsBase, Rests
<1>5. IsSupported(w) /\ Explains(w)
  BY WorkIsOK DEF IsSupported, Explains, WorkOK
<1>6. Says(w)
  BY ReportIsAccepted, NoneIsApart DEF Says, RequestOf
<1> QED BY <1>3, <1>4, <1>5, <1>6 DEF WorkOK

LEMMA ViewWrittenKeeps ==
    ASSUME KitInv, NEW c \in Collectors, ViewWritten(c)
    PROVE  KitInv'
<1> DEFINE w == [work[c] EXCEPT !.phase = "fleet", !.sent = ReportCommand(memo, work[c].request),
                             !.warnings = ReportWarnings(memo)]
<1>1. work[c].phase = "view" /\ Becomes(c, w) /\ UNCHANGED <<kit, memo, directories>>
  BY DEF ViewWritten, Phase
<1>2. w = Made("fleet", work[c].request, ReportWarnings(memo), work[c].base, work[c].view,
               ReportCommand(memo, work[c].request), work[c].dataset)
  <2>1. IsRecord(work[c])
    BY WorkIsOK
  <2> QED BY <2>1, RecordsChangeThrice, Zenon
<1> HIDE DEF w
<1>3. /\ w.phase = "fleet" /\ w.request = work[c].request /\ w.warnings = ReportWarnings(memo)
      /\ w.base = work[c].base /\ w.view = work[c].view /\ w.sent = ReportCommand(memo, work[c].request)
      /\ w.dataset = work[c].dataset /\ IsRecord(w)
  BY <1>2 DEF Made, IsRecord
<1>4. /\ w.request \in Askable /\ w.base = 1 + (IF w.dataset # None THEN 1 ELSE 0)
      /\ w.view \in Views \union {None} /\ (w.view # None /\ w.dataset # None => w.view # w.dataset.view)
      /\ Supports(Needed) /\ Supports({"runs"})
  BY <1>1, <1>3, WorkIsOK DEF WorkOK, WorkType, Shares, ReadsBase, Rests, IsSupported
<1>5. WorkOK(w)
  BY <1>3, <1>4, FleetIsOK
<1>6. Tidies(c, w)
  BY <1>1, <1>3, TidyStays DEF InUse
<1> QED BY <1>1, <1>5, <1>6, OneCollector

(* A view begins to be made into a dataset.                                  *)
Holds(v) == v.base = 1 + (IF v.dataset # None THEN 1 ELSE 0)
Ready(c, v) ==
    /\ v.request \in Askable /\ v.warnings \in SUBSET {"time zone"} /\ v.view = None
    /\ v.dataset = work[c].dataset /\ work[c].view = None /\ InUse(work[c], "base")
    /\ Supports(Needed) /\ Supports({"runs"})

LEMMA ReadsDatasetKeeps ==
    ASSUME KitInv, NEW c \in Collectors, NEW v, IsRecord(v), Holds(v), Ready(c, v),
           ReadsDataset(c, v), UNCHANGED <<kit, memo>>
    PROVE  KitInv'
<1>1. CASE v.request.filtered
  <2> DEFINE line == InputCommand("snapshot", {"--output", "--since", "--until"})
             w == [v EXCEPT !.phase = "view", !.view = FreeView(c), !.sent = line]
  <2>1. Becomes(c, w) /\ directories' = directories \union {<<c, FreeView(c)>>}
    BY <1>1 DEF ReadsDataset
  <2>2. w = Made("view", v.request, v.warnings, v.base, FreeView(c), line, v.dataset)
    BY ViewChanges, Zenon
  <2> HIDE DEF w, line
  <2>3. /\ w.phase = "view" /\ w.request = v.request /\ w.warnings = v.warnings /\ w.base = v.base
        /\ w.view = FreeView(c) /\ w.sent = line /\ w.dataset = work[c].dataset /\ IsRecord(w)
    BY <2>2 DEF Made, IsRecord, Ready
  <2>4. /\ FreeView(c) \in Views /\ FreeView(c) # None /\ FreeView(c) # "base"
        /\ work[c].dataset # None => FreeView(c) # work[c].dataset.view
    BY NoneIsApart DEF FreeView, Views, Names
  <2>5. \A r : KitAccepts(line, r)
    <3>1. "snapshot" \in DOMAIN kit /\ Supports(Needed)
      BY DEF KitInv, Told, Supports, Needed, Ready
    <3> QED BY <3>1, ReadingIsAccepted DEF line
  <2>6. WorkType(w)
    <3>1. w.base \in Nat
      <4>1. w.base = v.base
        BY <2>3
      <4> QED BY <4>1 DEF Holds
    <3>2. w.phase \in Phases /\ w.view \in Views \union {None}
      BY <2>3, <2>4 DEF Phases
    <3>3. w.dataset \in HandedOut \union {None} /\ w.request \in Askable \union {None}
      BY <2>3, WorkIsOK DEF Ready
    <3> QED BY <2>3, <3>1, <3>2, <3>3 DEF WorkType, Ready
  <2>7. Shares(w) /\ Rests(w)
    <3>1. w.base = (IF ReadsBase(w) THEN 1 ELSE 0) + (IF w.dataset # None THEN 1 ELSE 0)
      <4>1. w.base = v.base /\ w.dataset = v.dataset /\ w.phase = "view"
        BY <2>3 DEF Ready
      <4> QED BY <4>1 DEF ReadsBase, Holds
    <3> QED BY <2>3, <2>4, <3>1, NoneIsApart DEF Shares, ReadsBase, Rests, Ready
  <2>8. IsSupported(w)
    BY <2>3 DEF IsSupported, Ready
  <2>9. Explains(w) /\ Says(w)
    BY <2>3, <2>5, WorkIsOK DEF Explains, Says, WorkOK
  <2>10. Tidies(c, w)
    <3>1. \A n \in Names : InUse(w, n) <=> InUse(work[c], n) \/ n = FreeView(c)
      BY <2>3, <2>4, NoneIsApart DEF InUse, Ready
    <3> QED BY <2>1, <2>4, <3>1, TidyAdds DEF Names
  <2> QED BY <2>1, <2>6, <2>7, <2>8, <2>9, <2>10, OneCollector DEF WorkOK
<1>2. CASE ~v.request.filtered
  <2> DEFINE w == [v EXCEPT !.phase = "fleet", !.sent = ReportCommand(memo, v.request),
                         !.warnings = ReportWarnings(memo)]
  <2>1. Becomes(c, w) /\ UNCHANGED directories
    BY <1>2 DEF ReadsDataset
  <2>2. w = Made("fleet", v.request, ReportWarnings(memo), v.base, v.view, ReportCommand(memo, v.request), v.dataset)
    BY RecordsChangeThrice, Zenon
  <2> HIDE DEF w
  <2>3. /\ w.phase = "fleet" /\ w.request = v.request /\ w.warnings = ReportWarnings(memo) /\ w.base = v.base
        /\ w.view = None /\ w.sent = ReportCommand(memo, w.request) /\ w.dataset = work[c].dataset /\ IsRecord(w)
    BY <2>2 DEF Made, IsRecord, Ready
  <2>4. w.base = 1 + (IF w.dataset # None THEN 1 ELSE 0)
    <3>1. w.base = v.base /\ w.dataset = v.dataset
      BY <2>3 DEF Ready
    <3> QED BY <3>1 DEF Holds
  <2>6. WorkOK(w)
    BY <2>3, <2>4, FleetIsOK DEF Ready
  <2>5. Tidies(c, w)
    <3>1. \A n \in Names : InUse(w, n) <=> InUse(work[c], n)
      BY <2>3, NoneIsApart DEF InUse, Ready
    <3> QED BY <2>1, <3>1, TidyStays
  <2> QED BY <2>1, <2>5, <2>6, OneCollector
<1> QED BY <1>1, <1>2

LEMMA JobsReadKeeps ==
    ASSUME KitInv, NEW c \in Collectors, JobsRead(c)
    PROVE  KitInv'
<1> DEFINE v == [work[c] EXCEPT !.base = 1]
<1>1. work[c].phase = "jobs" /\ UNCHANGED <<kit, memo>> /\ ReadsDataset(c, v)
  BY DEF JobsRead, Phase
<1>2. v = Made(work[c].phase, work[c].request, work[c].warnings, 1, work[c].view, work[c].sent, work[c].dataset)
  BY WorkIsOK, RecordsChange
<1> HIDE DEF v
<1>3. /\ v.request = work[c].request /\ v.warnings = work[c].warnings /\ v.view = work[c].view /\ v.base = 1
      /\ v.dataset = work[c].dataset /\ IsRecord(v)
  BY <1>2 DEF Made, IsRecord
<1>4. /\ work[c].request \in Askable /\ work[c].view = None /\ work[c].dataset = None
      /\ work[c].warnings \in SUBSET {"time zone"} /\ Supports(Needed) /\ Supports({"runs"})
  BY <1>1, WorkIsOK DEF WorkOK, WorkType, Shares, ReadsBase, Rests, IsSupported
<1>5. InUse(work[c], "base")
  BY <1>1 DEF InUse
<1>6. Holds(v)
  <2>1. v.base = 1 /\ v.dataset = None
    BY <1>3, <1>4
  <2> QED BY <2>1 DEF Holds
<1>7. Ready(c, v)
  BY <1>3, <1>4, <1>5 DEF Ready
<1> QED BY <1>1, <1>3, <1>6, <1>7, ReadsDatasetKeeps

LEMMA RereadsKeeps ==
    ASSUME KitInv, NEW c \in Collectors, NEW filtered \in BOOLEAN, Rereads(c, filtered)
    PROVE  KitInv'
<1> DEFINE r == [work[c].dataset.request EXCEPT !.filtered = filtered]
           v == [work[c] EXCEPT !.base = @ + 1, !.request = r]
<1>1. work[c].phase = "idle" /\ work[c].dataset # None /\ UNCHANGED <<kit, memo>> /\ ReadsDataset(c, v)
  BY DEF Rereads, Phase
<1>2. v = [work[c] EXCEPT !.base = work[c].base + 1, !.request = r]
  OBVIOUS
<1> HIDE DEF v
<1>3. v = Made(work[c].phase, r, work[c].warnings, work[c].base + 1, work[c].view, work[c].sent, work[c].dataset)
  <2>1. IsRecord(work[c])
    BY WorkIsOK
  <2> HIDE DEF r
  <2> QED BY <1>2, <2>1, BaseChanges, Zenon
<1>4. r \in Askable
  <2>1. work[c].dataset \in HandedOut
    BY <1>1, WorkIsOK
  <2>2. work[c].dataset.request \in Askable
    BY <2>1 DEF HandedOut
  <2> QED BY <2>2 DEF Askable
<1> HIDE DEF r
<1>5. /\ v.request = r /\ v.warnings = work[c].warnings /\ v.view = work[c].view /\ v.base = work[c].base + 1
      /\ v.dataset = work[c].dataset /\ IsRecord(v)
  BY <1>3 DEF Made, IsRecord
<1>6. work[c].base = 1
  <2>1. work[c].base = (IF ReadsBase(work[c]) THEN 1 ELSE 0) + (IF work[c].dataset # None THEN 1 ELSE 0)
    BY WorkIsOK DEF WorkOK, Shares
  <2> QED BY <1>1, <2>1 DEF ReadsBase
<1>9. /\ work[c].view = None /\ work[c].warnings \in SUBSET {"time zone"}
      /\ Supports(Needed) /\ Supports({"runs"})
  BY <1>1, WorkIsOK DEF WorkOK, WorkType, Shares, ReadsBase, IsSupported
<1>7. InUse(work[c], "base")
  BY <1>1 DEF InUse
<1>8. Holds(v)
  <2>1. v.base = work[c].base + 1 /\ v.dataset # None
    BY <1>1, <1>5
  <2> QED BY <1>6, <2>1 DEF Holds
<1>10. Ready(c, v)
  BY <1>4, <1>5, <1>7, <1>9 DEF Ready
<1> QED BY <1>1, <1>5, <1>8, <1>10, ReadsDatasetKeeps

LEMMA FleetReadKeeps ==
    ASSUME KitInv, NEW c \in Collectors, FleetRead(c)
    PROVE  KitInv'
<1> DEFINE v == work[c]
           got == [view |-> v.view, request |-> v.request, warnings |-> v.warnings, concurrency |-> KnowsTimeZone(memo)]
           left == IF v.dataset = None THEN v.base ELSE v.base - 1
           w == [Idle0 EXCEPT !.base = left, !.dataset = got]
<1>1. /\ v.phase = "fleet" /\ Becomes(c, w) /\ UNCHANGED <<kit, memo>>
      /\ directories' = IF v.dataset = None THEN directories ELSE WithoutView(directories, c, v.dataset.view)
  BY DEF FleetRead, Phase
<1>2. left = 1
  <2>1. v.base = (IF ReadsBase(v) THEN 1 ELSE 0) + (IF v.dataset # None THEN 1 ELSE 0)
    BY WorkIsOK DEF WorkOK, Shares
  <2> QED BY <1>1, <2>1 DEF ReadsBase
<1>3. got \in HandedOut /\ got # None /\ got.view = v.view /\ got.concurrency = KnowsTimeZone(memo)
          /\ got.warnings = ReportWarnings(memo) /\ got.request = v.request
  <2>1. /\ v.request \in Askable /\ v.view \in Views \union {None} /\ v.warnings \in SUBSET {"time zone"}
        /\ v.warnings = ReportWarnings(memo)
    BY <1>1, WorkIsOK DEF WorkOK, WorkType, Rests, Explains
  <2>2. KnowsTimeZone(memo) \in BOOLEAN
    BY DEF KnowsTimeZone
  <2> DEFINE knows == KnowsTimeZone(memo)
  <2>3. got.concurrency = knows
    <3> HIDE DEF knows
    <3> QED BY DEF knows
  <2>4. got \in HandedOut
    BY <2>1, <2>2 DEF HandedOut, Views
  <2>5. got.view = v.view /\ got.warnings = v.warnings /\ got.request = v.request
    OBVIOUS
  <2> QED BY <2>1, <2>3, <2>4, <2>5, NoneIsApart
<1> HIDE DEF got, left
<1>4. /\ w.phase = "idle" /\ w.request = None /\ w.warnings = {} /\ w.base = 1 /\ w.view = None
      /\ w.sent = None /\ w.dataset = got /\ IsRecord(w)
  <2> DEFINE u == [Idle0 EXCEPT !.base = left]
  <2>1. w = [u EXCEPT !.dataset = got]
    OBVIOUS
  <2>2. u = Made("idle", None, {}, 1, None, None, None)
    BY <1>2 DEF Idle0, Made
  <2> HIDE DEF u, w
  <2>3. w = Made("idle", None, {}, 1, None, None, got)
    BY <2>1, <2>2 DEF Made
  <2> QED BY <2>3 DEF IsRecord, Made
<1> HIDE DEF w
<1>5. Supports(Needed) /\ Supports({"runs"})
  BY <1>1, WorkIsOK DEF WorkOK, IsSupported
<1>6. WorkType(w)
  BY <1>3, <1>4 DEF WorkType, Phases
<1>7. Shares(w) /\ Rests(w) /\ Says(w)
  BY <1>3, <1>4 DEF Shares, ReadsBase, Rests, Says
<1>8. IsSupported(w)
  BY <1>4, <1>5 DEF IsSupported
<1>9. Explains(w)
  BY <1>3, <1>4 DEF Explains, ReportWarnings
<1>10. Tidies(c, w)
  <2>1. /\ v.view \in Views \union {None} /\ None \notin Names /\ "base" \notin Views
        /\ v.dataset # None => v.dataset.view \in Views \union {None}
        /\ v.view # None /\ v.dataset # None => v.view # v.dataset.view
    BY WorkIsOK, NoneIsApart DEF WorkOK, WorkType, Shares, HandedOut, Views
  <2>2. CASE v.dataset = None
    <3>1. \A n \in Names : InUse(w, n) <=> InUse(work[c], n)
      BY <1>1, <1>3, <1>4, <2>1, <2>2 DEF InUse, Names
    <3> QED BY <1>1, <2>2, <3>1, TidyStays
  <2>3. CASE v.dataset # None
    <3>1. \A n \in Names : InUse(w, n) <=> InUse(work[c], n) /\ n # v.dataset.view /\ (n = "base" => 1 # 0)
      BY <1>1, <1>3, <1>4, <2>1, <2>3 DEF InUse, Names
    <3>2. directories' = WithoutBase(WithoutView(directories, c, v.dataset.view), c, 1)
      BY <1>1, <2>3 DEF WithoutBase
    <3> QED BY <3>1, <3>2, TidyDrops
  <2> QED BY <2>2, <2>3
<1> QED BY <1>1, <1>6, <1>7, <1>8, <1>9, <1>10, OneCollector DEF WorkOK

LEMMA DropsKeeps ==
    ASSUME KitInv, NEW c \in Collectors, Drops(c)
    PROVE  KitInv'
<1> DEFINE v == work[c]
           left == v.base - 1
           w == [Idle0 EXCEPT !.base = left]
<1>1. /\ v.phase = "idle" /\ v.dataset # None /\ Becomes(c, w) /\ UNCHANGED <<kit, memo>>
      /\ directories' = WithoutBase(WithoutView(directories, c, v.dataset.view), c, left)
  BY DEF Drops, Phase
<1>2. left = 0
  <2>1. v.base = (IF ReadsBase(v) THEN 1 ELSE 0) + (IF v.dataset # None THEN 1 ELSE 0)
    BY WorkIsOK DEF WorkOK, Shares
  <2> QED BY <1>1, <2>1 DEF ReadsBase
<1> HIDE DEF left
<1>3. w.view = None /\ w.dataset = None /\ w.phase = "idle" /\ WorkOK(w)
  <2>1. w = Idle0
    BY <1>2 DEF Idle0
  <2> HIDE DEF w
  <2> QED BY <2>1, NoneIsApart DEF IsRecord, Made, WorkOK, WorkType, Idle0, Phases, Shares, ReadsBase, Rests,
                               IsSupported, Explains, Says
<1>4. \A n \in Names : InUse(w, n) <=> InUse(work[c], n) /\ n # v.dataset.view /\ (n = "base" => left # 0)
  <2>1. v.view = None
    BY <1>1, WorkIsOK DEF WorkOK, Shares, ReadsBase
  <2> HIDE DEF w
  <2> QED BY <1>1, <1>2, <1>3, <2>1, NoneIsApart DEF InUse, Names
<1> HIDE DEF w
<1>5. Tidies(c, w)
  BY <1>1, <1>4, TidyDrops
<1> QED BY <1>1, <1>3, <1>5, OneCollector

(* A report read from the dataset on demand.                                 *)
LEMMA OnDemandKeeps ==
    ASSUME KitInv, NEW c \in Collectors, NEW sub \in {"export", "steps", "timeline"}, NEW more,
           {"--input"} \union more = TakenForGranted[sub], sub \in DOMAIN kit,
           OnDemand(c, InputCommand(sub, more))
    PROVE  KitInv'
<1> DEFINE v == work[c]
           line == InputCommand(sub, more)
           w == [v EXCEPT !.sent = line]
<1>1. v.phase = "idle" /\ v.dataset # None /\ Becomes(c, w) /\ UNCHANGED <<kit, memo, directories>>
  BY DEF OnDemand, Phase
<1>2. w = Made(v.phase, v.request, v.warnings, v.base, v.view, line, v.dataset)
  BY WorkIsOK, RecordsChange
<1>3. Supports(Needed)
  BY <1>1, WorkIsOK DEF WorkOK, IsSupported
<1>4. \A r : KitAccepts(line, r)
  BY <1>3, ReadingIsAccepted
<1> HIDE DEF w, line
<1>5. /\ w.phase = v.phase /\ w.request = v.request /\ w.warnings = v.warnings /\ w.base = v.base
      /\ w.view = v.view /\ w.sent = line /\ w.dataset = v.dataset /\ IsRecord(w)
  BY <1>2 DEF Made, IsRecord
<1>6. WorkType(w) /\ IsSupported(w) /\ Explains(w)
  BY <1>5, WorkIsOK DEF WorkOK, WorkType, IsSupported, Explains
<1>7. Shares(w) /\ Rests(w)
  BY <1>1, <1>5, WorkIsOK DEF WorkOK, Shares, Rests, ReadsBase
<1>8. Says(w)
  BY <1>4, <1>5 DEF Says
<1>9. Tidies(c, w)
  BY <1>1, <1>5, TidyStays DEF InUse
<1> QED BY <1>1, <1>6, <1>7, <1>8, <1>9, OneCollector DEF WorkOK

LEMMA CollectorKeeps ==
    ASSUME KitInv, NEW c \in Collectors, CollectorNext(c)
    PROVE  KitInv'
<1>1. CASE ExportFleet(c) \/ StepRows(c) \/ CollectRunTimeline(c)
  <2>1. IsProbe
    BY <1>1, WorkIsOK DEF ExportFleet, StepRows, CollectRunTimeline, OnDemand, Phase, WorkOK, IsSupported, Supports
  <2>2. /\ ExportFleet(c) => "export" \in DOMAIN kit
        /\ StepRows(c) => "steps" \in DOMAIN kit
        /\ CollectRunTimeline(c) => "timeline" \in DOMAIN kit
    BY <2>1 DEF KitInv, Told, ExportFleet, StepRows, CollectRunTimeline
  <2>3. /\ {"--input"} \union {"--format"} = TakenForGranted["export"]
        /\ {"--input"} \union {"--format", "--kind"} = TakenForGranted["steps"]
        /\ {"--input"} \union {"--format", "--attempt"} = TakenForGranted["timeline"]
    BY Granted
  <2> QED BY <1>1, <2>2, <2>3, OnDemandKeeps DEF ExportFleet, StepRows, CollectRunTimeline
<1> QED BY <1>1, CollectsForKeeps, ProbedKeeps, SnapshotTakenKeeps, MetadataReadKeeps, RunsReadKeeps, JobsReadKeeps,
           ViewWrittenKeeps, FleetReadKeeps, FailsKeeps, RereadsKeeps, DropsKeeps DEF CollectorNext

LEMMA KitStep == KitInv /\ [ToolkitNext]_kitVars => KitInv'
<1> SUFFICES ASSUME KitInv, [ToolkitNext]_kitVars PROVE KitInv'
  OBVIOUS
<1>1. CASE UNCHANGED kitVars
  <2>1. \A w : WorkOK(w) => WorkOK(w)'
    BY <1>1, ZenonT(60) DEF kitVars, WorkOK, Shares, ReadsBase, Rests, IsSupported, Supports, IsProbe, Explains,
                ReportWarnings, KnowsTimeZone, Says, KitAccepts, RequestOf
  <2> QED BY <1>1, <2>1 DEF KitInv, kitVars, IsProbe, Told, Tidy, InUse
<1> QED BY <1>1, UpgradeKeeps, ProbeKeeps, CollectorKeeps DEF ToolkitNext

(* The inductive invariant of the collections.                               *)
THEOREM KitInvariant == ToolkitSpec => []KitInv
<1> QED BY KitStarts, KitStep, PTL DEF ToolkitSpec

(* Whatever the probe could not read and whenever the CLI is upgraded, only  *)
(* what the installed CLI knows is sent to it; however a collection ends,    *)
(* only directories in use are left; and a dataset without a concurrency     *)
(* says why.                                                                 *)
THEOREM CollectionsStayAccountedFor == ToolkitSpec => []CollectionsAreAccountedFor
<1> QED BY KitInvariant, KitInvSays, PTL

---------------------------------------------------------------------------
(* lib/process.mjs and its callers, for any texts cut into any pieces: what  *)
(* a reader has is exactly what the child wrote, as far as it was read.      *)

(* A child process. Numbers and places say how much of a text has been read. *)
ChildSet ==
    [reader : {"counts", "insists", "capped"}, gated : BOOLEAN, phase : {"asked", "running", "settled"},
     out : Seq(Written), log : Seq(Written), text : Seq(Written), said : Seq(Written),
     stderr : Seq(Written), pending : Seq(Written), pendingErr : Seq(Written),
     stopped : BOOLEAN, aborted : BOOLEAN, streamError : BOOLEAN, given : Seq(Seq(Written)),
     rows : Seq(Seq(Written)), malformed : Nat, warnings : Seq(Written), outcome : Endings \union {None}]

OutRead(s) == Len(s.text) - Len(s.out)
LogRead(s) == Len(s.said) - Len(s.log)

(* What is left in a pipe is the rest of the text.                           *)
Left(text, k) == SubSeq(text, k + 1, Len(text))
PipesAreFifo(s) ==
    /\ Len(s.out) <= Len(s.text) /\ s.out = Left(s.text, OutRead(s))
    /\ Len(s.log) <= Len(s.said) /\ s.log = Left(s.said, LogRead(s))
    /\ s.stderr = SubSeq(s.said, 1, LogRead(s))

(* A reader has kept or counted each line it was given, if there was none it *)
(* could not read or had no room for; that line was its last.                *)
Counting(s) ==
    /\ s.reader # "capped" /\ ~s.streamError => Len(s.rows) + s.malformed = Len(s.given)
    /\ s.reader = "capped" /\ ~s.stopped => Len(s.rows) + s.malformed = Len(s.given) /\ Len(s.given) <= RowCap
    /\ s.stopped /\ ~s.aborted /\ ~s.streamError => s.reader = "capped" /\ Len(s.rows) + s.malformed = RowCap
    /\ s.streamError => s.stopped /\ s.reader = "insists" /\ s.given # <<>> /\ ~IsRow(Last(s.given))

(* It was given the lines of what was read, up to where it was stopped.      *)
Reading(s, i) ==
    /\ IsPrefix(s.given, Scan(s.text)[i].lines)
    /\ ~s.stopped => s.given = Scan(s.text)[i].lines /\ s.pending = Scan(s.text)[i].open
    /\ Counting(s)

(* Whoever listens has each warning once among the lines it overheard.       *)
Hearing(s, i) ==
    Listens(s) =>
        /\ s.pendingErr = Scan(s.said)[i].open
        /\ Range(s.warnings) = Warned(Scan(s.said)[i].lines)
        /\ IsInjective(s.warnings)

(* The invariant, and what it says of a child that has not settled.          *)
Unsettled(s) ==
    /\ s.outcome = None
    /\ PipesAreFifo(s) /\ Reading(s, OutRead(s)) /\ Hearing(s, LogRead(s))
    /\ s.phase = "asked" => ~s.stopped
    /\ s.phase = "running" /\ s.aborted => s.stopped

StreamInv ==
    /\ child \in ChildSet
    /\ IF child.phase = "settled" THEN StreamsAreExact ELSE Unsettled(child)

(* What holds of 0 and of the next number holds of all up to n.              *)

LEMMA CountingUp ==
    ASSUME NEW n \in Nat, NEW P, 0 \in P, \A i \in 0 .. n - 1 : i \in P => i + 1 \in P
    PROVE  \A i \in 0 .. n : i \in P
<1> DEFINE T == {i \in 0 .. n : i \notin P}
<1>1. T = {}
  <2> SUFFICES ASSUME T # {} PROVE FALSE
    OBVIOUS
  <2>1. T \in SUBSET Nat
    OBVIOUS
  <2>2. PICK m \in T : \A k \in T : ~ (<<k, m>> \in OpToRel(<, Nat))
    <3> HIDE DEF T
    <3> QED BY <2>1, NatLessThanWellFounded, WFMin, Zenon
  <2>3. m \in 0 .. n /\ m \notin P /\ m # 0
    OBVIOUS
  <2>4. m - 1 \in 0 .. n - 1 /\ m - 1 \in 0 .. n /\ (m - 1) + 1 = m
    BY <2>3
  <2>5. m - 1 \in P
    <3>1. <<m - 1, m>> \in OpToRel(<, Nat)
      <4>1. m - 1 \in Nat /\ m \in Nat /\ m - 1 < m
        BY <2>3
      <4> QED BY <4>1, Zenon DEF OpToRel
    <3>2. m - 1 \notin T
      <4> HIDE DEF T
      <4> QED BY <2>2, <3>1, Zenon
    <3> QED BY <3>2, <2>4
  <2> QED BY <2>3, <2>4, <2>5
<1> QED BY <1>1

(* Scan is what its recursion says.                                          *)

LEMMA ScanIsDefined ==
    ASSUME NEW text, Len(text) \in Nat
    PROVE  Scan(text) = [i \in 0 .. Len(text) |->
               IF i = 0 THEN [lines |-> <<>>, open |-> <<>>]
               ELSE IF text[i] = Eol THEN [lines |-> LinesOf(Scan(text)[i - 1]), open |-> <<>>]
               ELSE [lines |-> Scan(text)[i - 1].lines, open |-> Append(Scan(text)[i - 1].open, text[i])]]
<1> DEFINE Next(x, i) == IF text[i] = Eol THEN [lines |-> LinesOf(x), open |-> <<>>]
                         ELSE [lines |-> x.lines, open |-> Append(x.open, text[i])]
           First == [lines |-> <<>>, open |-> <<>>]
           Def(g, n) == g = [i \in 0 .. n |-> IF i = 0 THEN First ELSE Next(g[i - 1], i)]
           P == {n \in Nat : \E g : Def(g, n)}
<1>1. Scan(text) = CHOOSE f : Def(f, Len(text))
  BY DEF Scan
<1>2. Def([i \in 0 .. 0 |-> First], 0)
  <2> HIDE DEF First, Next
  <2> QED OBVIOUS
<1>3. ASSUME NEW m \in Nat, NEW g, Def(g, m) PROVE \E h : Def(h, m + 1)
  <2> HIDE DEF First, Next
  <2> DEFINE h == [i \in 0 .. m + 1 |-> IF i <= m THEN g[i] ELSE Next(g[m], m + 1)]
  <2>1. \A i \in 0 .. m : h[i] = g[i] /\ i \in 0 .. m + 1
    OBVIOUS
  <2>2. h[m + 1] = Next(g[m], m + 1) /\ m + 1 \in 0 .. m + 1 /\ m \in 0 .. m
    OBVIOUS
  <2>3. \A i \in 0 .. m : g[i] = IF i = 0 THEN First ELSE Next(g[i - 1], i)
    BY <1>3
  <2> HIDE DEF Def
  <2>4. h = [i \in 0 .. m + 1 |-> h[i]]
    OBVIOUS
  <2> HIDE DEF h
  <2>5. \A i \in 0 .. m + 1 : h[i] = IF i = 0 THEN First ELSE Next(h[i - 1], i)
    <3> TAKE i \in 0 .. m + 1
    <3>1. CASE i = 0
      BY <3>1, <2>1, <2>3
    <3>2. CASE i = m + 1
      <4>1. i # 0 /\ i - 1 = m
        BY <3>2
      <4> QED BY <3>2, <4>1, <2>1, <2>2
    <3>3. CASE i # 0 /\ i # m + 1
      <4>1. i \in 0 .. m /\ i - 1 \in 0 .. m
        BY <3>3
      <4> QED BY <3>3, <4>1, <2>1, <2>3
    <3> QED BY <3>1, <3>2, <3>3
  <2>6. Def(h, m + 1)
    BY <2>4, <2>5 DEF Def
  <2> QED BY <2>6
<1>4. Len(text) \in P
  <2> HIDE DEF Def
  <2>1. 0 \in P /\ \A i \in 0 .. Len(text) - 1 : i \in P => i + 1 \in P
    BY <1>2, <1>3
  <2> HIDE DEF P
  <2>2. \A i \in 0 .. Len(text) : i \in P
    BY <2>1, CountingUp
  <2> QED BY <2>2
<1>5. Def(Scan(text), Len(text))
  <2>1. PICK g : Def(g, Len(text))
    <3> HIDE DEF Def
    <3> QED BY <1>4
  <2> HIDE DEF Def
  <2> QED BY <1>1, <2>1
<1> QED BY <1>5

(* So is what a handler does to a piece.                                     *)

LEMMA HandlingIsDefined ==
    ASSUME NEW pipe, NEW s, NEW piece, Len(piece) \in Nat
    PROVE  Handling(pipe, s, piece) = [i \in 0 .. Len(piece) |->
               IF i = 0 THEN s ELSE Takes(pipe, Handling(pipe, s, piece)[i - 1], piece[i])]
<1> DEFINE Next(x, i) == Takes(pipe, x, piece[i])
           Def(g, n) == g = [i \in 0 .. n |-> IF i = 0 THEN s ELSE Next(g[i - 1], i)]
           P == {n \in Nat : \E g : Def(g, n)}
<1>1. Handling(pipe, s, piece) = CHOOSE f : Def(f, Len(piece))
  BY DEF Handling
<1>2. Def([i \in 0 .. 0 |-> s], 0)
  <2> HIDE DEF Next
  <2> QED OBVIOUS
<1>3. ASSUME NEW m \in Nat, NEW g, Def(g, m) PROVE \E h : Def(h, m + 1)
  <2> HIDE DEF Next
  <2> DEFINE h == [i \in 0 .. m + 1 |-> IF i <= m THEN g[i] ELSE Next(g[m], m + 1)]
  <2>1. \A i \in 0 .. m : h[i] = g[i] /\ i \in 0 .. m + 1
    OBVIOUS
  <2>2. h[m + 1] = Next(g[m], m + 1) /\ m + 1 \in 0 .. m + 1 /\ m \in 0 .. m
    OBVIOUS
  <2>3. \A i \in 0 .. m : g[i] = IF i = 0 THEN s ELSE Next(g[i - 1], i)
    BY <1>3
  <2> HIDE DEF Def
  <2>4. h = [i \in 0 .. m + 1 |-> h[i]]
    OBVIOUS
  <2> HIDE DEF h
  <2>5. \A i \in 0 .. m + 1 : h[i] = IF i = 0 THEN s ELSE Next(h[i - 1], i)
    <3> TAKE i \in 0 .. m + 1
    <3>1. CASE i = 0
      BY <3>1, <2>1, <2>3
    <3>2. CASE i = m + 1
      <4>1. i # 0 /\ i - 1 = m
        BY <3>2
      <4> QED BY <3>2, <4>1, <2>1, <2>2
    <3>3. CASE i # 0 /\ i # m + 1
      <4>1. i \in 0 .. m /\ i - 1 \in 0 .. m
        BY <3>3
      <4> QED BY <3>3, <4>1, <2>1, <2>3
    <3> QED BY <3>1, <3>2, <3>3
  <2>6. Def(h, m + 1)
    BY <2>4, <2>5 DEF Def
  <2> QED BY <2>6
<1>4. Len(piece) \in P
  <2> HIDE DEF Def
  <2>1. 0 \in P /\ \A i \in 0 .. Len(piece) - 1 : i \in P => i + 1 \in P
    BY <1>2, <1>3
  <2> HIDE DEF P
  <2>2. \A i \in 0 .. Len(piece) : i \in P
    BY <2>1, CountingUp
  <2> QED BY <2>2
<1>5. Def(Handling(pipe, s, piece), Len(piece))
  <2>1. PICK g : Def(g, Len(piece))
    <3> HIDE DEF Def
    <3> QED BY <1>4
  <2> HIDE DEF Def
  <2> QED BY <1>1, <2>1
<1> QED BY <1>5

(* The lines read of a text, and the next character.                         *)

LinesRead == [lines : Seq(Seq(Written)), open : Seq(Written)]

LEMMA LinesOfTyped ==
    ASSUME NEW x \in LinesRead
    PROVE  /\ LinesOf(x) \in Seq(Seq(Written))
           /\ x.open = <<>> => LinesOf(x) = x.lines
           /\ x.open # <<>> => LinesOf(x) = Append(x.lines, x.open)
BY DEF LinesOf, LinesRead

LEMMA ScanStep ==
    ASSUME NEW text \in Seq(Written), NEW i \in 0 .. Len(text) - 1
    PROVE  LET x == Scan(text)[i]  y == Scan(text)[i + 1] IN
           /\ text[i + 1] = Eol => y.lines = LinesOf(x) /\ y.open = <<>>
           /\ text[i + 1] # Eol => y.lines = x.lines /\ y.open = Append(x.open, text[i + 1])
<1>1. Len(text) \in Nat /\ i + 1 \in 0 .. Len(text) /\ i + 1 # 0 /\ (i + 1) - 1 = i
  OBVIOUS
<1>2. Scan(text)[i + 1] = IF text[i + 1] = Eol THEN [lines |-> LinesOf(Scan(text)[i]), open |-> <<>>]
          ELSE [lines |-> Scan(text)[i].lines, open |-> Append(Scan(text)[i].open, text[i + 1])]
  BY <1>1, ScanIsDefined
<1> QED BY <1>2

LEMMA ScanTyped ==
    ASSUME NEW text \in Seq(Written)
    PROVE  /\ Scan(text)[0] = [lines |-> <<>>, open |-> <<>>]
           /\ \A i \in 0 .. Len(text) : Scan(text)[i] \in LinesRead
<1> DEFINE P == {i \in 0 .. Len(text) : Scan(text)[i] \in LinesRead}
<1>1. Len(text) \in Nat
  OBVIOUS
<1>2. Scan(text)[0] = [lines |-> <<>>, open |-> <<>>]
  BY <1>1, ScanIsDefined
<1>3. 0 \in P
  <2>1. <<>> \in Seq(Written) /\ <<>> \in Seq(Seq(Written)) /\ 0 \in 0 .. Len(text)
    BY <1>1
  <2>2. Scan(text)[0] \in LinesRead
    BY <1>2, <2>1 DEF LinesRead
  <2> QED BY <2>1, <2>2
<1>4. ASSUME NEW i \in 0 .. Len(text) - 1, Scan(text)[i] \in LinesRead PROVE Scan(text)[i + 1] \in LinesRead
  <2>1. i + 1 \in 0 .. Len(text) /\ i + 1 # 0 /\ (i + 1) - 1 = i /\ text[i + 1] \in Written
    BY <1>1
  <2>2. Scan(text)[i + 1] = IF text[i + 1] = Eol THEN [lines |-> LinesOf(Scan(text)[i]), open |-> <<>>]
          ELSE [lines |-> Scan(text)[i].lines, open |-> Append(Scan(text)[i].open, text[i + 1])]
    BY <1>1, <2>1, ScanIsDefined
  <2>3. Scan(text)[i].lines \in Seq(Seq(Written)) /\ Scan(text)[i].open \in Seq(Written)
    BY <1>4 DEF LinesRead
  <2>4. LinesOf(Scan(text)[i]) \in Seq(Seq(Written))
    BY <1>4, LinesOfTyped
  <2>5. Append(Scan(text)[i].open, text[i + 1]) \in Seq(Written) /\ <<>> \in Seq(Written)
    BY <2>1, <2>3
  <2> QED BY <2>2, <2>3, <2>4, <2>5 DEF LinesRead
<1>5. \A i \in 0 .. Len(text) - 1 : i \in P => i + 1 \in P
  BY <1>1, <1>4
<1>6. \A i \in 0 .. Len(text) : i \in P
  <2> HIDE DEF P
  <2> QED BY <1>1, <1>3, <1>5, CountingUp
<1> QED BY <1>2, <1>6

(* What a prefix is.                                                         *)

LEMMA PrefixDef ==
    ASSUME NEW S, NEW s \in Seq(S), NEW t \in Seq(S)
    PROVE  IsPrefix(s, t) <=> Len(s) <= Len(t) /\ \A i \in 1 .. Len(s) : s[i] = t[i]
<1>1. Len(s) \in Nat /\ Len(t) \in Nat
  OBVIOUS
<1>2. SubSeq(s, 1, Len(s)) = s
  OBVIOUS
<1>3. ASSUME Len(s) <= Len(t)
      PROVE  /\ SubSeq(t, 1, Len(s)) \in Seq(S) /\ Len(SubSeq(t, 1, Len(s))) = Len(s)
             /\ \A i \in 1 .. Len(s) : SubSeq(t, 1, Len(s))[i] = t[i]
  BY <1>1, <1>3
<1>4. ASSUME Len(s) <= Len(t) PROVE s = SubSeq(t, 1, Len(s)) <=> \A i \in 1 .. Len(s) : s[i] = t[i]
  <2>1. ASSUME \A i \in 1 .. Len(s) : s[i] = t[i] PROVE s = SubSeq(t, 1, Len(s))
    <3> DEFINE u == SubSeq(t, 1, Len(s))
    <3>1. u \in Seq(S) /\ Len(u) = Len(s) /\ \A i \in 1 .. Len(s) : s[i] = u[i]
      BY <1>3, <1>4, <2>1
    <3> HIDE DEF u
    <3>2. s = u
      BY <3>1, SeqEqual
    <3> QED BY <3>2 DEF u
  <2>2. ASSUME s = SubSeq(t, 1, Len(s)) PROVE \A i \in 1 .. Len(s) : s[i] = t[i]
    BY <1>3, <1>4, <2>2
  <2> QED BY <2>1, <2>2
<1> QED BY <1>2, <1>4 DEF IsPrefix

LEMMA PrefixReflexive ==
    ASSUME NEW S, NEW s \in Seq(S) PROVE IsPrefix(s, s)
BY PrefixDef

LEMMA PrefixTransitive ==
    ASSUME NEW S, NEW s \in Seq(S), NEW t \in Seq(S), NEW u \in Seq(S), IsPrefix(s, t), IsPrefix(t, u)
    PROVE  IsPrefix(s, u)
<1>1. Len(s) <= Len(t) /\ (\A i \in 1 .. Len(s) : s[i] = t[i]) /\ Len(t) <= Len(u) /\ \A i \in 1 .. Len(t) : t[i] = u[i]
  BY PrefixDef
<1>2. Len(s) \in Nat /\ Len(t) \in Nat /\ Len(u) \in Nat
  OBVIOUS
<1>3. Len(s) <= Len(u) /\ \A i \in 1 .. Len(s) : s[i] = u[i]
  BY <1>1, <1>2
<1> QED BY <1>3, PrefixDef

LEMMA PrefixOfAppend ==
    ASSUME NEW S, NEW s \in Seq(S), NEW e \in S
    PROVE  IsPrefix(s, Append(s, e)) /\ Append(s, e) \in Seq(S) /\ Front(Append(s, e)) = s /\ Last(Append(s, e)) = e
<1> DEFINE t == Append(s, e)
<1>1. t \in Seq(S) /\ Len(t) = Len(s) + 1 /\ Len(s) \in Nat /\ (\A i \in 1 .. Len(s) : t[i] = s[i]) /\ t[Len(s) + 1] = e
  BY AppendProperties
<1> HIDE DEF t
<1>2. IsPrefix(s, t)
  BY <1>1, PrefixDef
<1>3. SubSeq(t, 1, Len(t) - 1) = s
  <2> DEFINE u == SubSeq(t, 1, Len(t) - 1)
  <2>1. u \in Seq(S) /\ Len(u) = Len(s) /\ \A i \in 1 .. Len(s) : u[i] = t[i]
    BY <1>1
  <2>2. Len(u) = Len(s) /\ \A i \in 1 .. Len(u) : u[i] = s[i]
    BY <1>1, <2>1
  <2> HIDE DEF u
  <2>3. u = s
    BY <2>1, <2>2, SeqEqual
  <2> QED BY <2>3 DEF u
<1>4. t[Len(t)] = e
  BY <1>1
<1> QED BY <1>1, <1>2, <1>3, <1>4 DEF t, Front, Last

(* What is read early is a prefix of all that is said.                       *)
LEMMA ReadIsSaid ==
    ASSUME NEW text \in Seq(Written), NEW i \in 0 .. Len(text)
    PROVE  /\ Said(text) \in Seq(Seq(Written))
           /\ IsPrefix(Scan(text)[i].lines, Said(text))
<1> DEFINE n == Len(text)
           P == {d \in 0 .. n : IsPrefix(Scan(text)[n - d].lines, Said(text))}
<1>1. n \in Nat /\ n \in 0 .. n /\ n - 0 = n
  OBVIOUS
<1>2. \A k \in 0 .. n : Scan(text)[k] \in LinesRead /\ Scan(text)[k].lines \in Seq(Seq(Written)) /\ Scan(text)[k].open \in Seq(Written)
  BY ScanTyped DEF LinesRead
<1>3. Said(text) \in Seq(Seq(Written))
  BY <1>1, <1>2, LinesOfTyped DEF Said
<1>a. ASSUME NEW x \in LinesRead PROVE IsPrefix(x.lines, LinesOf(x))
  <2>1. x.lines \in Seq(Seq(Written)) /\ x.open \in Seq(Written)
    BY DEF LinesRead
  <2>2. CASE x.open = <<>>
    BY <2>1, <2>2, LinesOfTyped, PrefixReflexive
  <2>3. CASE x.open # <<>>
    BY <2>1, <2>3, LinesOfTyped, PrefixOfAppend
  <2> QED BY <2>2, <2>3
<1>4. IsPrefix(Scan(text)[n].lines, Said(text))
  BY <1>1, <1>2, <1>a DEF Said
<1>5. 0 \in P
  BY <1>1, <1>4
<1>6. ASSUME NEW d \in 0 .. n - 1, IsPrefix(Scan(text)[n - d].lines, Said(text))
      PROVE  IsPrefix(Scan(text)[n - (d + 1)].lines, Said(text))
  <2> DEFINE k == n - (d + 1)
  <2>1. k \in 0 .. n - 1 /\ k \in 0 .. n /\ k + 1 = n - d /\ k + 1 \in 0 .. n
    BY <1>1
  <2> HIDE DEF k
  <2>2. Scan(text)[k + 1].lines = LinesOf(Scan(text)[k]) \/ Scan(text)[k + 1].lines = Scan(text)[k].lines
    BY <2>1, ScanStep
  <2>3. IsPrefix(Scan(text)[k].lines, Scan(text)[k + 1].lines)
    BY <1>2, <1>a, <2>1, <2>2, PrefixReflexive
  <2>4. Scan(text)[k].lines \in Seq(Seq(Written)) /\ Scan(text)[k + 1].lines \in Seq(Seq(Written))
    BY <1>2, <2>1
  <2>5. IsPrefix(Scan(text)[k].lines, Said(text))
    BY <1>3, <1>6, <2>1, <2>3, <2>4, PrefixTransitive
  <2> QED BY <2>5 DEF k
<1>7. \A d \in 0 .. n - 1 : d \in P => d + 1 \in P
  BY <1>1, <1>6
<1>8. \A d \in 0 .. n : d \in P
  <2> HIDE DEF P
  <2> QED BY <1>1, <1>5, <1>7, CountingUp
<1>9. n - i \in 0 .. n /\ n - (n - i) = i
  BY <1>1
<1> QED BY <1>3, <1>8, <1>9

(* What the handler of stdout leaves alone.                                  *)
BesideStdout(t, s) ==
    /\ t.reader = s.reader /\ t.gated = s.gated /\ t.phase = s.phase /\ t.out = s.out /\ t.log = s.log
    /\ t.text = s.text /\ t.said = s.said /\ t.stderr = s.stderr /\ t.pendingErr = s.pendingErr
    /\ t.aborted = s.aborted /\ t.warnings = s.warnings /\ t.outcome = s.outcome

LEMMA Given ==
    ASSUME NEW s \in ChildSet, NEW line \in Seq(Written)
    PROVE  LET t == [s EXCEPT !.given = Append(@, line)] IN
           /\ t \in ChildSet /\ BesideStdout(t, s) /\ t.given = Append(s.given, line)
           /\ t.pending = s.pending /\ t.stopped = s.stopped /\ t.streamError = s.streamError
           /\ t.rows = s.rows /\ t.malformed = s.malformed
<1>1. s.given \in Seq(Seq(Written)) /\ Append(s.given, line) \in Seq(Seq(Written))
  BY DEF ChildSet
<1> QED BY <1>1 DEF ChildSet, BesideStdout

LEMMA Kept ==
    ASSUME NEW s \in ChildSet, NEW line \in Seq(Written)
    PROVE  LET t == Keep(s, line) IN
           /\ t \in ChildSet /\ BesideStdout(t, s) /\ t.given = s.given
           /\ t.pending = s.pending /\ t.stopped = s.stopped /\ t.streamError = s.streamError
           /\ Len(t.rows) + t.malformed = Len(s.rows) + s.malformed + 1
<1>1. /\ s.rows \in Seq(Seq(Written)) /\ Append(s.rows, line) \in Seq(Seq(Written))
      /\ Len(Append(s.rows, line)) = Len(s.rows) + 1 /\ Len(s.rows) \in Nat /\ s.malformed \in Nat
  BY DEF ChildSet
<1>2. LET t == [s EXCEPT !.rows = Append(@, line)] IN
      /\ t \in ChildSet /\ BesideStdout(t, s) /\ t.given = s.given
      /\ t.pending = s.pending /\ t.stopped = s.stopped /\ t.streamError = s.streamError
      /\ t.rows = Append(s.rows, line) /\ t.malformed = s.malformed
  BY <1>1 DEF ChildSet, BesideStdout
<1>3. LET t == [s EXCEPT !.malformed = @ + 1] IN
      /\ t \in ChildSet /\ BesideStdout(t, s) /\ t.given = s.given
      /\ t.pending = s.pending /\ t.stopped = s.stopped /\ t.streamError = s.streamError
      /\ t.rows = s.rows /\ t.malformed = s.malformed + 1
  <2> DEFINE m == s.malformed + 1
  <2>1. m \in Nat
    BY <1>1
  <2> HIDE DEF m
  <2>2. LET t == [s EXCEPT !.malformed = m] IN
        /\ t \in ChildSet /\ BesideStdout(t, s) /\ t.given = s.given
        /\ t.pending = s.pending /\ t.stopped = s.stopped /\ t.streamError = s.streamError
        /\ t.rows = s.rows /\ t.malformed = m
    BY <2>1 DEF ChildSet, BesideStdout
  <2> QED BY <2>2 DEF m
<1>4. CASE IsRow(line)
  <2>1. Keep(s, line) = [s EXCEPT !.rows = Append(@, line)]
    BY <1>4 DEF Keep
  <2> QED BY <1>1, <1>2, <2>1
<1>5. CASE ~IsRow(line)
  <2>1. Keep(s, line) = [s EXCEPT !.malformed = @ + 1]
    BY <1>5 DEF Keep
  <2> DEFINE t == [s EXCEPT !.malformed = @ + 1]
  <2>2. /\ t \in ChildSet /\ BesideStdout(t, s) /\ t.given = s.given
        /\ t.pending = s.pending /\ t.stopped = s.stopped /\ t.streamError = s.streamError
        /\ t.rows = s.rows /\ t.malformed = s.malformed + 1
    BY <1>3
  <2>3. Keep(s, line) = t
    BY <2>1
  <2> HIDE DEF t
  <2>4. Len(t.rows) + t.malformed = Len(s.rows) + s.malformed + 1
    <3> DEFINE a == Len(s.rows)
               b == s.malformed
    <3>1. a \in Nat /\ b \in Nat
      BY <1>1
    <3>2. Len(t.rows) = a /\ t.malformed = b + 1
      BY <2>2
    <3> HIDE DEF a, b
    <3>3. Len(t.rows) + t.malformed = a + b + 1
      BY <3>1, <3>2
    <3> QED BY <3>3 DEF a, b
  <2> QED BY <2>2, <2>3, <2>4
<1> QED BY <1>4, <1>5

LEMMA Dispatched ==
    ASSUME NEW s \in ChildSet, NEW line \in Seq(Written)
    PROVE  LET t == Dispatch(s, line) IN
           /\ t \in ChildSet /\ BesideStdout(t, s) /\ t.given = Append(s.given, line) /\ t.pending = s.pending
           /\ IF s.reader = "insists" /\ ~IsRow(line) THEN t.streamError /\ t.stopped
              ELSE /\ t.streamError = s.streamError
                   /\ IF s.reader = "capped" /\ Len(s.given) + 1 > RowCap
                      THEN t.stopped /\ Len(t.rows) + t.malformed = Len(s.rows) + s.malformed
                      ELSE t.stopped = s.stopped /\ Len(t.rows) + t.malformed = Len(s.rows) + s.malformed + 1
<1> DEFINE g == [s EXCEPT !.given = Append(@, line)]
<1>1. /\ g \in ChildSet /\ BesideStdout(g, s) /\ g.given = Append(s.given, line) /\ g.pending = s.pending
      /\ g.stopped = s.stopped /\ g.streamError = s.streamError /\ g.rows = s.rows /\ g.malformed = s.malformed
  BY Given
<1>2. Len(g.given) = Len(s.given) + 1
  <2>1. s.given \in Seq(Seq(Written))
    BY DEF ChildSet
  <2> QED BY <1>1, <2>1
<1>3. Dispatch(s, line) = IF s.reader = "insists" /\ ~IsRow(line) THEN [g EXCEPT !.streamError = TRUE, !.stopped = TRUE]
        ELSE IF s.reader = "capped" /\ Len(g.given) > RowCap THEN [g EXCEPT !.stopped = TRUE]
        ELSE Keep(g, line)
  BY DEF Dispatch
<1> HIDE DEF g
<1>4. CASE s.reader = "insists" /\ ~IsRow(line)
  <2>1. Dispatch(s, line) = [g EXCEPT !.streamError = TRUE, !.stopped = TRUE]
    BY <1>3, <1>4
  <2>2. LET t == [g EXCEPT !.streamError = TRUE, !.stopped = TRUE] IN
        /\ t \in ChildSet /\ BesideStdout(t, g) /\ t.given = g.given /\ t.pending = g.pending /\ t.streamError /\ t.stopped
    BY <1>1 DEF ChildSet, BesideStdout
  <2> QED BY <1>1, <1>4, <2>1, <2>2 DEF BesideStdout
<1>5. CASE ~(s.reader = "insists" /\ ~IsRow(line)) /\ s.reader = "capped" /\ Len(s.given) + 1 > RowCap
  <2>1. Dispatch(s, line) = [g EXCEPT !.stopped = TRUE]
    BY <1>2, <1>3, <1>5
  <2>2. LET t == [g EXCEPT !.stopped = TRUE] IN
        /\ t \in ChildSet /\ BesideStdout(t, g) /\ t.given = g.given /\ t.pending = g.pending /\ t.stopped
        /\ t.streamError = g.streamError /\ t.rows = g.rows /\ t.malformed = g.malformed
    BY <1>1 DEF ChildSet, BesideStdout
  <2> QED BY <1>1, <1>5, <2>1, <2>2 DEF BesideStdout
<1>6. CASE ~(s.reader = "insists" /\ ~IsRow(line)) /\ ~(s.reader = "capped" /\ Len(s.given) + 1 > RowCap)
  <2>1. Dispatch(s, line) = Keep(g, line)
    BY <1>2, <1>3, <1>6
  <2>2. LET t == Keep(g, line) IN
        /\ t \in ChildSet /\ BesideStdout(t, g) /\ t.given = g.given /\ t.pending = g.pending
        /\ t.stopped = g.stopped /\ t.streamError = g.streamError
        /\ Len(t.rows) + t.malformed = Len(g.rows) + g.malformed + 1
    BY <1>1, Kept
  <2> QED BY <1>1, <1>6, <2>1, <2>2 DEF BesideStdout
<1> QED BY <1>4, <1>5, <1>6

LEMMA CountsStay ==
    ASSUME NEW s \in ChildSet, NEW line \in Seq(Written), ~s.stopped, Counting(s)
    PROVE  LET t == Dispatch(s, line) IN
           /\ Counting(t)
           /\ s.reader # "capped" /\ ~t.streamError => Len(t.rows) + t.malformed = Len(t.given)
<1> DEFINE t == Dispatch(s, line)
           k == Len(s.given)
           r == Len(s.rows) + s.malformed
           l == Len(t.given)
           q == Len(t.rows) + t.malformed
<1>1. s.given \in Seq(Seq(Written)) /\ Len(s.rows) \in Nat /\ s.malformed \in Nat
  BY DEF ChildSet
<1>2. /\ t \in ChildSet /\ BesideStdout(t, s) /\ t.given = Append(s.given, line) /\ t.pending = s.pending
      /\ IF s.reader = "insists" /\ ~IsRow(line) THEN t.streamError /\ t.stopped
         ELSE /\ t.streamError = s.streamError
              /\ IF s.reader = "capped" /\ k + 1 > RowCap
                 THEN t.stopped /\ q = r
                 ELSE t.stopped = s.stopped /\ q = r + 1
  BY Dispatched
<1>3. t.given # <<>> /\ Last(t.given) = line /\ l = k + 1 /\ k \in Nat /\ r \in Nat
  <2>1. Append(s.given, line) # <<>> /\ Len(Append(s.given, line)) = k + 1 /\ k \in Nat
    BY <1>1, AppendProperties
  <2>2. Last(Append(s.given, line)) = line
    BY <1>1, PrefixOfAppend
  <2>3. r \in Nat
    BY <1>1
  <2> QED BY <1>2, <2>1, <2>2, <2>3
<1>4. t.reader = s.reader /\ t.aborted = s.aborted
  BY <1>2 DEF BesideStdout
<1>5. /\ ~s.streamError
      /\ s.reader # "capped" => r = k
      /\ s.reader = "capped" => r = k /\ k <= RowCap
  BY DEF Counting
<1>6. RowCap \in Nat
  BY StreamAssumption
<1> SUFFICES /\ t.reader # "capped" /\ ~t.streamError => q = l
             /\ t.reader = "capped" /\ ~t.stopped => q = l /\ l <= RowCap
             /\ t.stopped /\ ~t.aborted /\ ~t.streamError => t.reader = "capped" /\ q = RowCap
             /\ t.streamError => t.stopped /\ t.reader = "insists" /\ t.given # <<>> /\ ~IsRow(Last(t.given))
  BY <1>4 DEF Counting
<1> HIDE DEF t, k, r, l, q
<1>7. CASE s.reader = "insists" /\ ~IsRow(line)
  BY <1>2, <1>3, <1>4, <1>7
<1>8. CASE ~(s.reader = "insists" /\ ~IsRow(line)) /\ s.reader = "capped" /\ k + 1 > RowCap
  <2>1. t.streamError = s.streamError /\ t.stopped /\ q = r /\ r = k /\ k <= RowCap
    BY <1>2, <1>5, <1>8
  <2>2. q = RowCap
    BY <1>3, <1>6, <1>8, <2>1
  <2> QED BY <1>4, <1>5, <1>8, <2>1, <2>2
<1>9. CASE ~(s.reader = "insists" /\ ~IsRow(line)) /\ ~(s.reader = "capped" /\ k + 1 > RowCap)
  <2>1. t.streamError = s.streamError /\ t.stopped = s.stopped /\ q = r + 1 /\ r = k
    BY <1>2, <1>5, <1>9
  <2>2. q = l /\ (s.reader = "capped" => l <= RowCap)
    BY <1>3, <1>6, <1>9, <2>1
  <2> QED BY <1>4, <1>5, <2>1, <2>2
<1> QED BY <1>7, <1>8, <1>9

LEMMA ReadsGoOn ==
    ASSUME NEW s \in ChildSet, NEW i \in 0 .. Len(s.text) - 1, Reading(s, i)
    PROVE  LET t == Reads(s, s.text[i + 1]) IN t \in ChildSet /\ BesideStdout(t, s) /\ Reading(t, i + 1)
<1> DEFINE x == Scan(s.text)[i]
           y == Scan(s.text)[i + 1]
           c == s.text[i + 1]
<1>1. /\ s.text \in Seq(Written) /\ s.given \in Seq(Seq(Written)) /\ s.pending \in Seq(Written)
      /\ i \in 0 .. Len(s.text) /\ i + 1 \in 0 .. Len(s.text) /\ c \in Written
  <2>1. s.text \in Seq(Written) /\ s.given \in Seq(Seq(Written)) /\ s.pending \in Seq(Written)
    BY DEF ChildSet
  <2>2. i \in 0 .. Len(s.text) /\ i + 1 \in 0 .. Len(s.text) /\ i + 1 \in 1 .. Len(s.text)
    BY <2>1, LenProperties
  <2>3. c \in Written
    BY <2>1, <2>2, ElementOfSeq
  <2> QED BY <2>1, <2>2, <2>3
<1>2. x \in LinesRead /\ y \in LinesRead /\ x.lines \in Seq(Seq(Written)) /\ x.open \in Seq(Written)
      /\ y.lines \in Seq(Seq(Written)) /\ LinesOf(x) \in Seq(Seq(Written))
  <2>1. x \in LinesRead /\ y \in LinesRead
    BY <1>1, ScanTyped
  <2>2. LinesOf(x) \in Seq(Seq(Written))
    BY <2>1, LinesOfTyped
  <2> QED BY <2>1, <2>2 DEF LinesRead
<1>3. /\ c = Eol => y.lines = LinesOf(x) /\ y.open = <<>>
      /\ c # Eol => y.lines = x.lines /\ y.open = Append(x.open, c)
  BY <1>1, ScanStep
<1>4. /\ x.open = <<>> => LinesOf(x) = x.lines
      /\ x.open # <<>> => LinesOf(x) = Append(x.lines, x.open)
  BY <1>2, LinesOfTyped
<1>5. IsPrefix(x.lines, y.lines)
  <2>1. CASE y.lines = x.lines
    BY <1>2, <2>1, PrefixReflexive
  <2>2. CASE y.lines = Append(x.lines, x.open)
    BY <1>2, <2>2, PrefixOfAppend
  <2> QED BY <1>3, <1>4, <2>1, <2>2
<1>6. /\ IsPrefix(s.given, x.lines) /\ Counting(s)
      /\ ~s.stopped => s.given = x.lines /\ s.pending = x.open
  BY DEF Reading
<1>7. ASSUME NEW t, t.text = s.text, IsPrefix(t.given, y.lines), Counting(t),
             ~t.stopped => t.given = y.lines /\ t.pending = y.open
      PROVE  Reading(t, i + 1)
  BY <1>7 DEF Reading
<1> HIDE DEF x, y, c
<1>8. IsPrefix(s.given, y.lines)
  BY <1>1, <1>2, <1>5, <1>6, PrefixTransitive
<1>9. CASE s.stopped
  <2>1. Reads(s, c) = s
    BY <1>9 DEF Reads
  <2>2. Reading(s, i + 1)
    BY <1>6, <1>7, <1>8, <1>9
  <2> QED BY <2>1, <2>2 DEF BesideStdout, c
<1>10. CASE ~s.stopped /\ c # Eol
  <2> DEFINE p == Append(s.pending, c)
             t == [s EXCEPT !.pending = p]
  <2>1. Reads(s, c) = t
    BY <1>10 DEF Reads
  <2>2. p \in Seq(Written)
    BY <1>1
  <2> HIDE DEF p
  <2>3. /\ t \in ChildSet /\ BesideStdout(t, s) /\ t.pending = p /\ t.given = s.given /\ t.stopped = s.stopped
        /\ t.streamError = s.streamError /\ t.rows = s.rows /\ t.malformed = s.malformed
    BY <2>2 DEF ChildSet, BesideStdout
  <2> HIDE DEF t
  <2>4. t.text = s.text /\ t.reader = s.reader /\ t.aborted = s.aborted
    BY <2>3 DEF BesideStdout
  <2>5. Counting(t)
    BY <1>6, <2>3, <2>4 DEF Counting
  <2>6. t.given = y.lines /\ t.pending = y.open
    BY <1>3, <1>6, <1>10, <2>3 DEF p
  <2>7. Reading(t, i + 1)
    BY <1>7, <1>8, <2>3, <2>4, <2>5, <2>6
  <2> QED BY <2>1, <2>3, <2>7 DEF c
<1>11. CASE ~s.stopped /\ c = Eol /\ s.pending = <<>>
  <2>1. Reads(s, c) = s
    BY <1>11 DEF Reads
  <2>2. Reading(s, i + 1)
    BY <1>3, <1>4, <1>6, <1>7, <1>8, <1>11
  <2> QED BY <2>1, <2>2 DEF BesideStdout, c
<1>12. CASE ~s.stopped /\ c = Eol /\ s.pending # <<>>
  <2> DEFINE u == [s EXCEPT !.pending = <<>>]
             t == Dispatch(u, s.pending)
  <2>1. Reads(s, c) = t
    BY <1>12 DEF Reads
  <2>2. /\ u \in ChildSet /\ BesideStdout(u, s) /\ u.pending = <<>> /\ u.given = s.given /\ u.stopped = s.stopped
        /\ u.streamError = s.streamError /\ u.rows = s.rows /\ u.malformed = s.malformed
    <3> DEFINE e == <<>>
    <3>1. e \in Seq(Written)
      OBVIOUS
    <3> HIDE DEF e
    <3>2. u = [s EXCEPT !.pending = e]
      BY DEF e
    <3>3. /\ u \in ChildSet /\ BesideStdout(u, s) /\ u.pending = e /\ u.given = s.given /\ u.stopped = s.stopped
          /\ u.streamError = s.streamError /\ u.rows = s.rows /\ u.malformed = s.malformed
      BY <3>1, <3>2 DEF ChildSet, BesideStdout
    <3> QED BY <3>3 DEF e
  <2> HIDE DEF u
  <2>3. u.text = s.text /\ u.reader = s.reader /\ u.aborted = s.aborted
    BY <2>2 DEF BesideStdout
  <2>4. Counting(u)
    BY <1>6, <2>2, <2>3 DEF Counting
  <2>5. t \in ChildSet /\ BesideStdout(t, u) /\ t.given = Append(u.given, s.pending) /\ t.pending = u.pending
    BY <1>1, <2>2, Dispatched
  <2>6. Counting(t)
    BY <1>1, <1>12, <2>2, <2>4, CountsStay
  <2> HIDE DEF t
  <2>7. t.given = y.lines /\ t.pending = y.open
    BY <1>3, <1>4, <1>6, <1>12, <2>2, <2>5
  <2>8. BesideStdout(t, s) /\ t.text = s.text
    BY <2>2, <2>5 DEF BesideStdout
  <2>9. IsPrefix(t.given, y.lines)
    BY <1>2, <2>7, PrefixReflexive
  <2>10. Reading(t, i + 1)
    BY <1>7, <2>6, <2>7, <2>8, <2>9
  <2> QED BY <2>1, <2>5, <2>8, <2>10 DEF c
<1> QED BY <1>9, <1>10, <1>11, <1>12

(* A warning is listed once.                                                 *)

LEMMA RangeOfAppend ==
    ASSUME NEW S, NEW s \in Seq(S), NEW e \in S
    PROVE  /\ Range(Append(s, e)) = Range(s) \union {e}
           /\ IsInjective(s) /\ e \notin Range(s) => IsInjective(Append(s, e))
<1> DEFINE t == Append(s, e)
<1>1. /\ Len(s) \in Nat /\ DOMAIN s = 1 .. Len(s) /\ DOMAIN t = 1 .. Len(s) + 1
      /\ (\A i \in 1 .. Len(s) : t[i] = s[i]) /\ t[Len(s) + 1] = e
  BY AppendProperties, LenProperties
<1> HIDE DEF t
<1>2. DOMAIN t = DOMAIN s \union {Len(s) + 1} /\ Len(s) + 1 \notin DOMAIN s
  BY <1>1
<1>3. \A i \in DOMAIN s : t[i] = s[i]
  BY <1>1
<1>4. Range(t) = Range(s) \union {e}
  BY <1>1, <1>2, <1>3 DEF Range
<1>5. ASSUME IsInjective(s), e \notin Range(s) PROVE IsInjective(t)
  <2> SUFFICES ASSUME NEW i \in DOMAIN t, NEW j \in DOMAIN t, t[i] = t[j] PROVE i = j
    BY DEF IsInjective
  <2>1. CASE i \in DOMAIN s /\ j \in DOMAIN s
    BY <1>3, <1>5, <2>1 DEF IsInjective
  <2>2. CASE i = Len(s) + 1 /\ j \in DOMAIN s
    BY <1>1, <1>3, <1>5, <2>2 DEF Range
  <2>3. CASE i \in DOMAIN s /\ j = Len(s) + 1
    BY <1>1, <1>3, <1>5, <2>3 DEF Range
  <2> QED BY <1>2, <2>1, <2>2, <2>3
<1> QED BY <1>4, <1>5 DEF t

LEMMA WarnedOfAppend ==
    ASSUME NEW lines \in Seq(Seq(Written)), NEW line \in Seq(Written)
    PROVE  /\ IsWarning(line) => Warned(Append(lines, line)) = Warned(lines) \union {line[2]}
           /\ ~IsWarning(line) => Warned(Append(lines, line)) = Warned(lines)
<1>1. Range(Append(lines, line)) = Range(lines) \union {line}
  BY RangeOfAppend
<1> QED BY <1>1 DEF Warned

(* What the handler of stderr leaves alone.                                  *)
BesideStderr(t, s) ==
    /\ t.reader = s.reader /\ t.gated = s.gated /\ t.phase = s.phase /\ t.out = s.out /\ t.log = s.log
    /\ t.text = s.text /\ t.said = s.said /\ t.stderr = s.stderr /\ t.pending = s.pending
    /\ t.stopped = s.stopped /\ t.aborted = s.aborted /\ t.streamError = s.streamError /\ t.given = s.given
    /\ t.rows = s.rows /\ t.malformed = s.malformed /\ t.outcome = s.outcome

LEMMA WarnedOnce ==
    ASSUME NEW s \in ChildSet, NEW w \in Written
    PROVE  LET t == [s EXCEPT !.warnings = Append(@, w)] IN
           /\ t \in ChildSet /\ BesideStderr(t, s) /\ t.pendingErr = s.pendingErr /\ t.warnings = Append(s.warnings, w)
<1>1. Append(s.warnings, w) \in Seq(Written)
  BY DEF ChildSet
<1> QED BY <1>1 DEF ChildSet, BesideStderr

LEMMA Opened ==
    ASSUME NEW s \in ChildSet, NEW p \in Seq(Written)
    PROVE  LET t == [s EXCEPT !.pendingErr = p] IN
           /\ t \in ChildSet /\ BesideStderr(t, s) /\ t.pendingErr = p /\ t.warnings = s.warnings
BY DEF ChildSet, BesideStderr

LEMMA Heard ==
    ASSUME NEW s \in ChildSet, ~s.streamError, NEW x \in LinesRead,
           Range(s.warnings) = Warned(x.lines), IsInjective(s.warnings)
    PROVE  LET t == Hears(s, x.open) IN
           /\ t \in ChildSet /\ BesideStderr(t, s) /\ t.pendingErr = s.pendingErr
           /\ Range(t.warnings) = Warned(LinesOf(x)) /\ IsInjective(t.warnings)
<1> DEFINE line == x.open
<1>1. x.lines \in Seq(Seq(Written)) /\ line \in Seq(Written) /\ s.warnings \in Seq(Written)
  BY DEF LinesRead, ChildSet
<1>2. IsWarning(line) => line[2] \in Written /\ line # <<>>
  <2>1. ASSUME Len(line) = 2 PROVE line[2] \in Written /\ line # <<>>
    <3> HIDE DEF line
    <3>1. line # <<>>
      BY <2>1
    <3>2. 2 \in 1 .. Len(line)
      BY <2>1
    <3> QED BY <1>1, <3>1, <3>2, ElementOfSeq
  <2> QED BY <2>1 DEF IsWarning
<1>3. /\ IsWarning(line) => Warned(LinesOf(x)) = Warned(x.lines) \union {line[2]}
      /\ ~IsWarning(line) => Warned(LinesOf(x)) = Warned(x.lines)
  <2>1. CASE line = <<>>
    BY <1>2, <2>1, LinesOfTyped
  <2>2. CASE line # <<>>
    <3>1. LinesOf(x) = Append(x.lines, line)
      BY <2>2, LinesOfTyped
    <3> HIDE DEF line
    <3> QED BY <1>1, <3>1, WarnedOfAppend
  <2> QED BY <2>1, <2>2
<1> HIDE DEF line
<1>4. CASE IsWarning(line) /\ line[2] \notin Range(s.warnings)
  <2> DEFINE t == [s EXCEPT !.warnings = Append(@, line[2])]
  <2>1. Hears(s, line) = t
    BY <1>4 DEF Hears
  <2>2. /\ t \in ChildSet /\ BesideStderr(t, s) /\ t.pendingErr = s.pendingErr /\ t.warnings = Append(s.warnings, line[2])
    BY <1>2, <1>4, WarnedOnce
  <2> HIDE DEF t
  <2>3. Range(t.warnings) = Range(s.warnings) \union {line[2]} /\ IsInjective(t.warnings)
    BY <1>1, <1>2, <1>4, <2>2, RangeOfAppend
  <2> QED BY <1>3, <1>4, <2>1, <2>2, <2>3 DEF line
<1>5. CASE ~(IsWarning(line) /\ line[2] \notin Range(s.warnings))
  <2>1. Hears(s, line) = s
    BY <1>5 DEF Hears
  <2>2. Warned(LinesOf(x)) = Warned(x.lines)
    BY <1>3, <1>5
  <2> QED BY <2>1, <2>2 DEF BesideStderr, line
<1> QED BY <1>4, <1>5

LEMMA HearingGoesOn ==
    ASSUME NEW s \in ChildSet, NEW i \in 0 .. Len(s.said) - 1, Listens(s), ~s.streamError, Hearing(s, i)
    PROVE  LET t == Overhears(s, s.said[i + 1]) IN t \in ChildSet /\ BesideStderr(t, s) /\ Hearing(t, i + 1)
<1> DEFINE x == Scan(s.said)[i]
           y == Scan(s.said)[i + 1]
           c == s.said[i + 1]
<1>1. /\ s.said \in Seq(Written) /\ s.pendingErr \in Seq(Written)
      /\ i \in 0 .. Len(s.said) /\ i + 1 \in 0 .. Len(s.said) /\ c \in Written
  BY SMTT(40) DEF ChildSet
<1>2. x \in LinesRead
  BY <1>1, ScanTyped
<1>3. /\ c = Eol => y.lines = LinesOf(x) /\ y.open = <<>>
      /\ c # Eol => y.lines = x.lines /\ y.open = Append(x.open, c)
  BY <1>1, ScanStep
<1>4. s.pendingErr = x.open /\ Range(s.warnings) = Warned(x.lines) /\ IsInjective(s.warnings)
  BY DEF Hearing
<1>5. ASSUME NEW t, t.said = s.said, t.pendingErr = y.open, Range(t.warnings) = Warned(y.lines), IsInjective(t.warnings)
      PROVE  Hearing(t, i + 1)
  BY <1>5 DEF Hearing
<1> HIDE DEF x, y, c
<1>6. CASE c # Eol
  <2> DEFINE p == Append(s.pendingErr, c)
             t == [s EXCEPT !.pendingErr = p]
  <2>1. Overhears(s, c) = t
    BY <1>6 DEF Overhears
  <2>2. p \in Seq(Written)
    BY <1>1
  <2>3. /\ t \in ChildSet /\ BesideStderr(t, s) /\ t.pendingErr = p /\ t.warnings = s.warnings
    BY <2>2, Opened
  <2> HIDE DEF t
  <2>4. t.said = s.said
    BY <2>3 DEF BesideStderr
  <2>5. Hearing(t, i + 1)
    BY <1>3, <1>4, <1>5, <1>6, <2>3, <2>4
  <2> QED BY <2>1, <2>3, <2>5 DEF c
<1>7. CASE c = Eol
  <2> DEFINE e == <<>>
  <2>1. e \in Seq(Written)
    OBVIOUS
  <2> HIDE DEF e
  <2> DEFINE u == [s EXCEPT !.pendingErr = e]
             t == Hears(u, x.open)
  <2>2. Overhears(s, c) = t
    BY <1>4, <1>7 DEF Overhears, e
  <2>3. /\ u \in ChildSet /\ BesideStderr(u, s) /\ u.pendingErr = e /\ u.warnings = s.warnings
    BY <2>1, Opened
  <2> HIDE DEF u
  <2>4. ~u.streamError
    BY <2>3 DEF BesideStderr
  <2>5. /\ t \in ChildSet /\ BesideStderr(t, u) /\ t.pendingErr = u.pendingErr
        /\ Range(t.warnings) = Warned(LinesOf(x)) /\ IsInjective(t.warnings)
    BY <1>2, <1>4, <2>3, <2>4, Heard
  <2> HIDE DEF t
  <2>6. BesideStderr(t, s) /\ t.said = s.said
    BY <2>3, <2>5 DEF BesideStderr
  <2>7. Hearing(t, i + 1)
    BY <1>3, <1>5, <1>7, <2>3, <2>5, <2>6 DEF e
  <2> QED BY <2>2, <2>5, <2>6, <2>7 DEF c
<1> QED BY <1>6, <1>7

(* The rest of a text, and a piece of it.                                    *)

LEMMA LeftFacts ==
    ASSUME NEW text \in Seq(Written), NEW k \in 0 .. Len(text)
    PROVE  /\ Left(text, k) \in Seq(Written) /\ Len(Left(text, k)) = Len(text) - k
           /\ \A j \in 1 .. Len(text) - k : Left(text, k)[j] = text[k + j]
<1>1. Len(text) \in Nat /\ k \in Nat /\ k + 1 \in Int /\ k <= Len(text)
  OBVIOUS
<1>2. \A i \in k + 1 .. Len(text) : text[i] \in Written
  BY <1>1
<1>3. /\ SubSeq(text, k + 1, Len(text)) \in Seq(Written)
      /\ Len(SubSeq(text, k + 1, Len(text))) = IF k + 1 <= Len(text) THEN Len(text) - (k + 1) + 1 ELSE 0
      /\ \A j \in 1 .. Len(text) - (k + 1) + 1 : SubSeq(text, k + 1, Len(text))[j] = text[k + 1 + j - 1]
  BY <1>1, <1>2, SubSeqProperties
<1> QED BY <1>1, <1>3 DEF Left

LEMMA PieceFacts ==
    ASSUME NEW text \in Seq(Written), NEW k \in 0 .. Len(text), NEW n \in 1 .. Len(text) - k
    PROVE  LET rest == Left(text, k)  piece == SubSeq(rest, 1, n) IN
           /\ k + n \in 0 .. Len(text)
           /\ piece \in Seq(Written) /\ Len(piece) = n /\ \A j \in 1 .. n : piece[j] = text[k + j]
           /\ SubSeq(rest, n + 1, Len(rest)) = Left(text, k + n)
           /\ SubSeq(text, 1, k) \o piece = SubSeq(text, 1, k + n)
<1> DEFINE rest == Left(text, k)
           piece == SubSeq(rest, 1, n)
           N == Len(text)
<1>1. N \in Nat /\ k \in Nat /\ n \in Nat /\ k + n \in 0 .. N
  OBVIOUS
<1>2. rest \in Seq(Written) /\ Len(rest) = N - k /\ \A j \in 1 .. N - k : rest[j] = text[k + j]
  BY LeftFacts
<1> HIDE DEF rest
<1>3. piece \in Seq(Written) /\ Len(piece) = n /\ \A j \in 1 .. n : piece[j] = rest[j]
  <2>1. \A i \in 1 .. n : rest[i] \in Written
    BY <1>1, <1>2
  <2>2. /\ piece \in Seq(Written) /\ Len(piece) = (IF 1 <= n THEN n - 1 + 1 ELSE 0)
        /\ \A i \in 1 .. n - 1 + 1 : piece[i] = rest[1 + i - 1]
    BY <1>1, <2>1, SubSeqProperties
  <2> QED BY <1>1, <2>2
<1>4. \A j \in 1 .. n : piece[j] = text[k + j]
  BY <1>1, <1>2, <1>3
<1>5. SubSeq(rest, n + 1, Len(rest)) = Left(text, k + n)
  <2> DEFINE u == SubSeq(rest, n + 1, Len(rest))
             v == Left(text, k + n)
  <2>1. v \in Seq(Written) /\ Len(v) = N - (k + n) /\ \A j \in 1 .. N - (k + n) : v[j] = text[(k + n) + j]
    BY <1>1, LeftFacts
  <2>2. \A i \in n + 1 .. Len(rest) : rest[i] \in Written
    BY <1>1, <1>2
  <2>3. /\ u \in Seq(Written) /\ Len(u) = (IF n + 1 <= Len(rest) THEN Len(rest) - (n + 1) + 1 ELSE 0)
        /\ \A i \in 1 .. Len(rest) - (n + 1) + 1 : u[i] = rest[n + 1 + i - 1]
    BY <1>1, <1>2, <2>2, SubSeqProperties
  <2> HIDE DEF u, v
  <2>4. Len(u) = Len(v) /\ Len(u) = N - (k + n)
    BY <1>1, <1>2, <2>1, <2>3
  <2>5. \A i \in 1 .. Len(u) : u[i] = v[i]
    <3> TAKE i \in 1 .. Len(u)
    <3>1. i \in 1 .. N - (k + n) /\ i \in 1 .. Len(rest) - (n + 1) + 1 /\ n + i \in 1 .. N - k /\ n + 1 + i - 1 = n + i
      BY <1>1, <1>2, <2>4
    <3>2. u[i] = rest[n + i] /\ rest[n + i] = text[k + (n + i)] /\ v[i] = text[(k + n) + i]
      BY <1>2, <2>1, <2>3, <3>1
    <3>3. k + (n + i) = (k + n) + i
      BY <1>1, <3>1
    <3> QED BY <3>2, <3>3
  <2>6. u = v
    BY <2>1, <2>3, <2>4, <2>5, SeqEqual
  <2> QED BY <2>6 DEF u, v
<1>6. SubSeq(text, 1, k) \o piece = SubSeq(text, 1, k + n)
  <2>1. piece = SubSeq(text, k + 1, k + n)
    <3> DEFINE w == SubSeq(text, k + 1, k + n)
    <3>1. \A i \in k + 1 .. k + n : text[i] \in Written
      BY <1>1
    <3>2. /\ w \in Seq(Written) /\ Len(w) = (IF k + 1 <= k + n THEN (k + n) - (k + 1) + 1 ELSE 0)
          /\ \A i \in 1 .. (k + n) - (k + 1) + 1 : w[i] = text[k + 1 + i - 1]
      BY <1>1, <3>1, SubSeqProperties
    <3> HIDE DEF w, piece
    <3>3. Len(w) = n /\ \A i \in 1 .. n : w[i] = text[k + i]
      BY <1>1, <3>2
    <3>4. piece = w
      BY <1>3, <1>4, <3>2, <3>3, SeqEqual
    <3> QED BY <3>4 DEF w
  <2>2. 1 \in 1 .. N + 1 /\ k \in 1 - 1 .. N /\ k + n \in k .. N
    BY <1>1
  <2>3. SubSeq(text, 1, k) \o SubSeq(text, k + 1, k + n) = SubSeq(text, 1, k + n)
    BY <2>2, ConcatAdjacentSubSeq
  <2> QED BY <2>1, <2>3
<1> QED BY <1>1, <1>3, <1>4, <1>5, <1>6 DEF rest

(* The fields of a child.                                                    *)

LEMMA ChildFields ==
    ASSUME NEW s \in ChildSet
    PROVE  /\ s.reader \in {"counts", "insists", "capped"} /\ s.phase \in {"asked", "running", "settled"}
           /\ s.out \in Seq(Written) /\ s.log \in Seq(Written)
           /\ s.text \in Seq(Written) /\ s.said \in Seq(Written) /\ s.stderr \in Seq(Written)
           /\ s.pending \in Seq(Written) /\ s.pendingErr \in Seq(Written)
           /\ s.gated \in BOOLEAN /\ s.stopped \in BOOLEAN /\ s.aborted \in BOOLEAN /\ s.streamError \in BOOLEAN
           /\ s.given \in Seq(Seq(Written)) /\ s.rows \in Seq(Seq(Written)) /\ s.malformed \in Nat
           /\ s.warnings \in Seq(Written) /\ s.outcome \in Endings \union {None}
           /\ Len(s.out) \in Nat /\ Len(s.log) \in Nat /\ Len(s.text) \in Nat /\ Len(s.said) \in Nat
<1>1. /\ s.out \in Seq(Written) /\ s.log \in Seq(Written)
      /\ s.text \in Seq(Written) /\ s.said \in Seq(Written)
  BY DEF ChildSet
<1>2. Len(s.out) \in Nat /\ Len(s.log) \in Nat /\ Len(s.text) \in Nat /\ Len(s.said) \in Nat
  BY <1>1
<1> QED BY <1>2 DEF ChildSet

(* The child at the start of a call.                                         *)
LEMMA ChildAsked ==
    ASSUME NEW reader \in {"counts", "insists", "capped"}, NEW gated \in BOOLEAN,
           NEW out \in Seq(Written), NEW log \in Seq(Written)
    PROVE  LET s == ChildOf(reader, gated, out, log) IN s \in ChildSet /\ s.phase = "asked" /\ Unsettled(s)
<1> DEFINE e == <<>>
<1>1. e \in Seq(Written) /\ e \in Seq(Seq(Written)) /\ Len(e) = 0 /\ IsInjective(e) /\ Range(e) = {}
  BY DEF IsInjective, Range
<1> HIDE DEF e
<1> DEFINE s == ChildOf(reader, gated, out, log)
<1>2. s = [reader |-> reader, gated |-> gated, phase |-> "asked", out |-> out, log |-> log,
           text |-> out, said |-> log, stderr |-> e, pending |-> e, pendingErr |-> e,
           stopped |-> FALSE, aborted |-> FALSE, streamError |-> FALSE,
           given |-> e, rows |-> e, malformed |-> 0, warnings |-> e, outcome |-> None]
  BY DEF ChildOf, e
<1> HIDE DEF s
<1>3. s \in ChildSet
  BY <1>1, <1>2 DEF ChildSet
<1>4. PipesAreFifo(s)
  <2>1. OutRead(s) = 0 /\ LogRead(s) = 0
    BY <1>2 DEF OutRead, LogRead
  <2>2. Left(out, 0) = out /\ Left(log, 0) = log
    BY SubSeqFull DEF Left
  <2>3. SubSeq(log, 1, 0) = e
    BY SubSeqEmpty DEF e
  <2>4. Len(out) <= Len(out) /\ Len(log) <= Len(log)
    OBVIOUS
  <2> QED BY <1>2, <2>1, <2>2, <2>3, <2>4 DEF PipesAreFifo
<1>5. OutRead(s) = 0 /\ LogRead(s) = 0
  BY <1>2 DEF OutRead, LogRead
<1>6. /\ Scan(s.text)[0].lines = e /\ Scan(s.text)[0].open = e
      /\ Scan(s.said)[0].lines = e /\ Scan(s.said)[0].open = e
  BY <1>2, ScanTyped DEF e
<1>7. Counting(s)
  <2>1. Len(s.rows) + s.malformed = Len(s.given) /\ Len(s.given) <= RowCap
    BY <1>1, <1>2, StreamAssumption
  <2> QED BY <1>2, <2>1 DEF Counting
<1>8. Reading(s, 0)
  <2>1. IsPrefix(e, e)
    BY <1>1, PrefixReflexive
  <2> QED BY <1>2, <1>6, <1>7, <2>1 DEF Reading
<1>9. Hearing(s, 0)
  <2>1. Warned(e) = {}
    BY <1>1 DEF Warned
  <2> QED BY <1>1, <1>2, <1>6, <2>1 DEF Hearing
<1>10. Unsettled(s)
  BY <1>2, <1>4, <1>5, <1>8, <1>9 DEF Unsettled
<1> QED BY <1>2, <1>3, <1>10 DEF s

LEMMA PlacesRead ==
    ASSUME NEW s \in ChildSet, PipesAreFifo(s)
    PROVE  OutRead(s) \in 0 .. Len(s.text) /\ LogRead(s) \in 0 .. Len(s.said)
<1> DEFINE a == Len(s.out)  b == Len(s.text)  c == Len(s.log)  d == Len(s.said)
<1>1. a \in Nat /\ b \in Nat /\ c \in Nat /\ d \in Nat /\ a <= b /\ c <= d
  BY ChildFields DEF PipesAreFifo
<1>2. OutRead(s) = b - a /\ LogRead(s) = d - c
  BY DEF OutRead, LogRead
<1> HIDE DEF a, b, c, d
<1>3. OutRead(s) \in 0 .. b /\ LogRead(s) \in 0 .. d
  BY <1>1, <1>2
<1> QED BY <1>3 DEF b, d

LEMMA StdoutRead ==
    ASSUME NEW s \in ChildSet, s.phase = "running", Unsettled(s), NEW n \in 1 .. Len(s.out)
    PROVE  LET t == Handling("stdout", [s EXCEPT !.out = SubSeq(@, n + 1, Len(@))], SubSeq(s.out, 1, n))[n]
           IN  t \in ChildSet /\ t.phase = "running" /\ Unsettled(t)
<1> DEFINE k == OutRead(s)
           N == Len(s.text)
           piece == SubSeq(s.out, 1, n)
           rest == SubSeq(s.out, n + 1, Len(s.out))
           u == [s EXCEPT !.out = rest]
           h == Handling("stdout", u, piece)
<1>1. /\ s.out \in Seq(Written) /\ s.text \in Seq(Written) /\ Len(s.out) \in Nat /\ N \in Nat
      /\ Len(s.out) <= N /\ s.out = Left(s.text, k)
  BY ChildFields DEF Unsettled, PipesAreFifo
<1>2. k \in 0 .. N /\ n \in 1 .. N - k /\ n \in Nat /\ Len(s.out) = N - k
  <2> DEFINE a == Len(s.out)
  <2>1. k = N - a /\ n \in 1 .. a /\ a \in Nat /\ N \in Nat /\ a <= N
    BY <1>1 DEF OutRead
  <2> HIDE DEF k, a, N
  <2>2. k \in 0 .. N /\ n \in 1 .. N - k /\ n \in Nat /\ a = N - k
    BY <2>1
  <2> QED BY <2>2 DEF a
<1>3. /\ k + n \in 0 .. N /\ piece \in Seq(Written) /\ Len(piece) = n /\ \A j \in 1 .. n : piece[j] = s.text[k + j]
      /\ rest = Left(s.text, k + n)
  <2> DEFINE left == Left(s.text, k)
  <2>1. LET p == SubSeq(left, 1, n) IN
        /\ k + n \in 0 .. N
        /\ p \in Seq(Written) /\ Len(p) = n /\ \A j \in 1 .. n : p[j] = s.text[k + j]
        /\ SubSeq(left, n + 1, Len(left)) = Left(s.text, k + n)
    <3> HIDE DEF k
    <3> QED BY <1>1, <1>2, PieceFacts
  <2>2. left = s.out
    BY <1>1
  <2> HIDE DEF left, k
  <2> QED BY <2>1, <2>2
<1>4. rest \in Seq(Written) /\ Len(rest) = N - (k + n)
  BY <1>1, <1>3, LeftFacts
<1> HIDE DEF piece, rest
<1>5. /\ u \in ChildSet /\ u.out = rest
      /\ u.reader = s.reader /\ u.gated = s.gated /\ u.phase = s.phase /\ u.log = s.log
      /\ u.text = s.text /\ u.said = s.said /\ u.stderr = s.stderr /\ u.pending = s.pending
      /\ u.pendingErr = s.pendingErr /\ u.stopped = s.stopped /\ u.aborted = s.aborted
      /\ u.streamError = s.streamError /\ u.given = s.given /\ u.rows = s.rows /\ u.malformed = s.malformed
      /\ u.warnings = s.warnings /\ u.outcome = s.outcome
  BY <1>4 DEF ChildSet
<1> HIDE DEF u
<1>6. Reading(u, k)
  BY <1>5 DEF Unsettled, Reading, Counting
<1>7. /\ h[0] = u
      /\ \A m \in 0 .. n - 1 : h[m + 1] = Reads(h[m], s.text[k + (m + 1)])
  <2>1. h = [i \in 0 .. Len(piece) |-> IF i = 0 THEN u ELSE Takes("stdout", h[i - 1], piece[i])]
    <3>1. Len(piece) \in Nat
      BY <1>2, <1>3
    <3> QED BY <3>1, HandlingIsDefined
  <2> HIDE DEF h
  <2>2. h[0] = u
    BY <1>2, <1>3, <2>1
  <2>3. ASSUME NEW m \in 0 .. n - 1 PROVE h[m + 1] = Reads(h[m], s.text[k + (m + 1)])
    <3>1. m + 1 \in 0 .. n /\ m + 1 # 0 /\ (m + 1) - 1 = m /\ m + 1 \in 1 .. n
      BY <1>2
    <3>2. h[m + 1] = Takes("stdout", h[m], piece[m + 1])
      BY <1>3, <2>1, <3>1
    <3>3. piece[m + 1] = s.text[k + (m + 1)]
      BY <1>3, <3>1
    <3> QED BY <3>2, <3>3 DEF Takes
  <2> QED BY <2>2, <2>3
<1> HIDE DEF h, k
<1> DEFINE Good(t, i) == t \in ChildSet /\ BesideStdout(t, u) /\ Reading(t, i) /\ (u.stopped => t = u)
           P == {m \in 0 .. n : Good(h[m], k + m)}
<1>8. 0 \in P
  <2>1. BesideStdout(u, u) /\ k + 0 = k
    BY <1>2 DEF BesideStdout
  <2>2. Good(h[0], k + 0)
    BY <1>5, <1>6, <1>7, <2>1
  <2> HIDE DEF Good
  <2> QED BY <1>2, <2>2
<1>9. ASSUME NEW m \in 0 .. n - 1, Good(h[m], k + m) PROVE Good(h[m + 1], k + (m + 1))
  <2>1. k + m \in 0 .. N - 1 /\ (k + m) + 1 = k + (m + 1)
    BY <1>2, <1>3
  <2>2. h[m].text = s.text
    BY <1>5, <1>9 DEF BesideStdout
  <2>3. /\ h[m + 1] \in ChildSet /\ BesideStdout(h[m + 1], h[m]) /\ Reading(h[m + 1], (k + m) + 1)
    <3>1. k + m \in 0 .. Len(h[m].text) - 1
      BY <2>1, <2>2
    <3>2. LET t == Reads(h[m], h[m].text[(k + m) + 1])
          IN  t \in ChildSet /\ BesideStdout(t, h[m]) /\ Reading(t, (k + m) + 1)
      BY <1>9, <3>1, ReadsGoOn
    <3> QED BY <1>7, <2>1, <2>2, <3>2
  <2>4. BesideStdout(h[m + 1], u)
    BY <1>9, <2>3 DEF BesideStdout
  <2>5. u.stopped => h[m + 1] = u
    BY <1>7, <1>9 DEF Reads
  <2> QED BY <2>1, <2>3, <2>4, <2>5
<1>10. Good(h[n], k + n)
  <2> HIDE DEF Good
  <2>1. \A m \in 0 .. n - 1 : m \in P => m + 1 \in P
    BY <1>2, <1>9
  <2> HIDE DEF P
  <2>2. n \in P
    <3>1. n \in Nat /\ n \in 0 .. n
      BY <1>2
    <3>2. \A m \in 0 .. n : m \in P
      BY <1>8, <2>1, <3>1, CountingUp
    <3> QED BY <3>1, <3>2
  <2> QED BY <2>2 DEF P
<1> DEFINE t == h[n]
<1>11. /\ t \in ChildSet /\ Reading(t, k + n) /\ (s.stopped => t.stopped)
       /\ t.reader = s.reader /\ t.phase = s.phase /\ t.out = rest /\ t.log = s.log
       /\ t.text = s.text /\ t.said = s.said /\ t.stderr = s.stderr /\ t.pendingErr = s.pendingErr
       /\ t.aborted = s.aborted /\ t.warnings = s.warnings /\ t.outcome = s.outcome
  BY <1>5, <1>10 DEF BesideStdout
<1> HIDE DEF t
<1>12. OutRead(t) = k + n /\ LogRead(t) = LogRead(s)
  <2>1. N - (N - (k + n)) = k + n
    <3> HIDE DEF N
    <3> QED BY <1>1, <1>3
  <2> QED BY <1>4, <1>11, <2>1 DEF OutRead, LogRead
<1>13. PipesAreFifo(t)
  <2>1. Len(rest) <= N
    BY <1>1, <1>3, <1>4
  <2> QED BY <1>3, <1>4, <1>11, <1>12, <2>1 DEF PipesAreFifo, Unsettled
<1>14. Hearing(t, LogRead(t))
  BY <1>11, <1>12 DEF Unsettled, Hearing, Listens
<1>15. Unsettled(t)
  BY <1>11, <1>12, <1>13, <1>14 DEF Unsettled
<1> QED BY <1>11, <1>15 DEF t, h, u, rest, piece

LEMMA StderrRead ==
    ASSUME NEW s \in ChildSet, s.phase = "running", Unsettled(s), NEW n \in 1 .. Len(s.log)
    PROVE  LET piece == SubSeq(s.log, 1, n)
               u == [s EXCEPT !.log = SubSeq(@, n + 1, Len(@)), !.stderr = @ \o piece]
               t == IF Listens(u) THEN Handling("stderr", u, piece)[n] ELSE u
           IN  t \in ChildSet /\ t.phase = "running" /\ Unsettled(t)
<1> DEFINE k == LogRead(s)
           N == Len(s.said)
           piece == SubSeq(s.log, 1, n)
           rest == SubSeq(s.log, n + 1, Len(s.log))
           noted == s.stderr \o piece
           u == [s EXCEPT !.log = rest, !.stderr = noted]
           h == Handling("stderr", u, piece)
<1>1. /\ s.log \in Seq(Written) /\ s.said \in Seq(Written) /\ Len(s.log) \in Nat /\ N \in Nat
      /\ Len(s.log) <= N /\ s.log = Left(s.said, k) /\ s.stderr = SubSeq(s.said, 1, k) /\ s.stderr \in Seq(Written)
  BY ChildFields DEF Unsettled, PipesAreFifo
<1>2. k \in 0 .. N /\ n \in 1 .. N - k /\ n \in Nat /\ Len(s.log) = N - k
  <2> DEFINE a == Len(s.log)
  <2>1. k = N - a /\ n \in 1 .. a /\ a \in Nat /\ N \in Nat /\ a <= N
    BY <1>1 DEF LogRead
  <2> HIDE DEF k, a, N
  <2>2. k \in 0 .. N /\ n \in 1 .. N - k /\ n \in Nat /\ a = N - k
    BY <2>1
  <2> QED BY <2>2 DEF a
<1>3. /\ k + n \in 0 .. N /\ piece \in Seq(Written) /\ Len(piece) = n /\ \A j \in 1 .. n : piece[j] = s.said[k + j]
      /\ rest = Left(s.said, k + n) /\ noted = SubSeq(s.said, 1, k + n)
  <2> DEFINE left == Left(s.said, k)
  <2>1. LET p == SubSeq(left, 1, n) IN
        /\ k + n \in 0 .. N
        /\ p \in Seq(Written) /\ Len(p) = n /\ \A j \in 1 .. n : p[j] = s.said[k + j]
        /\ SubSeq(left, n + 1, Len(left)) = Left(s.said, k + n)
        /\ SubSeq(s.said, 1, k) \o p = SubSeq(s.said, 1, k + n)
    <3> HIDE DEF k
    <3> QED BY <1>1, <1>2, PieceFacts
  <2>2. left = s.log
    BY <1>1
  <2> HIDE DEF left, k
  <2> QED BY <1>1, <2>1, <2>2
<1>4. rest \in Seq(Written) /\ Len(rest) = N - (k + n) /\ noted \in Seq(Written)
  <2>1. rest \in Seq(Written) /\ Len(rest) = N - (k + n)
    BY <1>1, <1>3, LeftFacts
  <2>2. noted \in Seq(Written)
    BY <1>1, <1>3, ConcatProperties
  <2> QED BY <2>1, <2>2
<1> HIDE DEF piece, rest, noted
<1>5. /\ u \in ChildSet /\ u.log = rest /\ u.stderr = noted
      /\ u.reader = s.reader /\ u.gated = s.gated /\ u.phase = s.phase /\ u.out = s.out
      /\ u.text = s.text /\ u.said = s.said /\ u.pending = s.pending
      /\ u.pendingErr = s.pendingErr /\ u.stopped = s.stopped /\ u.aborted = s.aborted
      /\ u.streamError = s.streamError /\ u.given = s.given /\ u.rows = s.rows /\ u.malformed = s.malformed
      /\ u.warnings = s.warnings /\ u.outcome = s.outcome
  BY <1>4 DEF ChildSet
<1> HIDE DEF u
<1>6. Hearing(u, k)
  BY <1>5 DEF Unsettled, Hearing, Listens
<1>7. /\ h[0] = u
      /\ \A m \in 0 .. n - 1 : h[m + 1] = Overhears(h[m], s.said[k + (m + 1)])
  <2>1. h = [i \in 0 .. Len(piece) |-> IF i = 0 THEN u ELSE Takes("stderr", h[i - 1], piece[i])]
    <3>1. Len(piece) \in Nat
      BY <1>2, <1>3
    <3> QED BY <3>1, HandlingIsDefined
  <2> HIDE DEF h
  <2>2. h[0] = u
    BY <1>2, <1>3, <2>1
  <2>3. ASSUME NEW m \in 0 .. n - 1 PROVE h[m + 1] = Overhears(h[m], s.said[k + (m + 1)])
    <3>1. m + 1 \in 0 .. n /\ m + 1 # 0 /\ (m + 1) - 1 = m /\ m + 1 \in 1 .. n
      BY <1>2
    <3>2. h[m + 1] = Takes("stderr", h[m], piece[m + 1])
      BY <1>3, <2>1, <3>1
    <3>3. piece[m + 1] = s.said[k + (m + 1)]
      BY <1>3, <3>1
    <3> QED BY <3>2, <3>3 DEF Takes
  <2> QED BY <2>2, <2>3
<1> HIDE DEF h, k
<1>8. Listens(u) => ~u.streamError
  BY <1>5 DEF Unsettled, Reading, Counting, Listens
<1> DEFINE Good(t, i) == t \in ChildSet /\ BesideStderr(t, u) /\ Hearing(t, i)
           P == {m \in 0 .. n : Good(h[m], k + m)}
<1>9. 0 \in P
  <2>1. BesideStderr(u, u) /\ k + 0 = k
    BY <1>2 DEF BesideStderr
  <2>2. Good(h[0], k + 0)
    BY <1>5, <1>6, <1>7, <2>1
  <2> HIDE DEF Good
  <2> QED BY <1>2, <2>2
<1>10. ASSUME Listens(u), NEW m \in 0 .. n - 1, Good(h[m], k + m) PROVE Good(h[m + 1], k + (m + 1))
  <2>1. k + m \in 0 .. N - 1 /\ (k + m) + 1 = k + (m + 1)
    BY <1>2, <1>3
  <2>2. h[m].said = s.said /\ Listens(h[m]) /\ ~h[m].streamError
    BY <1>5, <1>8, <1>10 DEF BesideStderr, Listens
  <2>3. /\ h[m + 1] \in ChildSet /\ BesideStderr(h[m + 1], h[m]) /\ Hearing(h[m + 1], (k + m) + 1)
    <3>1. k + m \in 0 .. Len(h[m].said) - 1
      BY <2>1, <2>2
    <3>2. LET t == Overhears(h[m], h[m].said[(k + m) + 1])
          IN  t \in ChildSet /\ BesideStderr(t, h[m]) /\ Hearing(t, (k + m) + 1)
      BY <1>10, <2>2, <3>1, HearingGoesOn
    <3> QED BY <1>7, <2>1, <2>2, <3>2
  <2>4. BesideStderr(h[m + 1], u)
    BY <1>10, <2>3 DEF BesideStderr
  <2> QED BY <2>1, <2>3, <2>4
<1> DEFINE t == IF Listens(u) THEN h[n] ELSE u
<1>11. t \in ChildSet /\ BesideStderr(t, u) /\ Hearing(t, k + n)
  <2>1. CASE Listens(u)
    <3>1. Good(h[n], k + n)
      <4> HIDE DEF Good
      <4>1. \A m \in 0 .. n - 1 : m \in P => m + 1 \in P
        BY <1>2, <1>10, <2>1
      <4> HIDE DEF P
      <4>2. n \in P
        <5>1. n \in Nat /\ n \in 0 .. n
          BY <1>2
        <5>2. \A m \in 0 .. n : m \in P
          BY <1>9, <4>1, <5>1, CountingUp
        <5> QED BY <5>1, <5>2
      <4> QED BY <4>2 DEF P
    <3> QED BY <2>1, <3>1
  <2>2. CASE ~Listens(u)
    BY <1>5, <2>2 DEF BesideStderr, Hearing
  <2> QED BY <2>1, <2>2
<1> HIDE DEF t
<1>12. /\ t.reader = s.reader /\ t.phase = s.phase /\ t.out = s.out /\ t.log = rest
       /\ t.text = s.text /\ t.said = s.said /\ t.stderr = noted /\ t.pending = s.pending
       /\ t.stopped = s.stopped /\ t.aborted = s.aborted /\ t.streamError = s.streamError /\ t.given = s.given
       /\ t.rows = s.rows /\ t.malformed = s.malformed /\ t.outcome = s.outcome
  BY <1>5, <1>11 DEF BesideStderr
<1>13. OutRead(t) = OutRead(s) /\ LogRead(t) = k + n
  <2>1. N - (N - (k + n)) = k + n
    <3> HIDE DEF N
    <3> QED BY <1>1, <1>3
  <2> QED BY <1>4, <1>12, <2>1 DEF OutRead, LogRead
<1>14. PipesAreFifo(t)
  <2>1. Len(rest) <= N
    BY <1>1, <1>3, <1>4
  <2> QED BY <1>3, <1>4, <1>12, <1>13, <2>1 DEF PipesAreFifo, Unsettled
<1>15. Reading(t, OutRead(t))
  BY <1>12, <1>13 DEF Unsettled, Reading, Counting
<1>16. Unsettled(t)
  BY <1>11, <1>12, <1>13, <1>14, <1>15 DEF Unsettled
<1>17. t = (IF Listens(u) THEN h[n] ELSE u) /\ u = [s EXCEPT !.log = SubSeq(@, n + 1, Len(@)), !.stderr = @ \o piece]
  BY DEF t, u, rest, noted
<1> QED BY <1>11, <1>12, <1>16, <1>17 DEF h, piece

LEMMA AllHeard ==
    ASSUME NEW s \in ChildSet, s.phase = "running", Unsettled(s)
    PROVE  LET t == IF Listens(s) THEN Hears(s, s.pendingErr) ELSE s IN
           /\ t \in ChildSet /\ BesideStderr(t, s)
           /\ Listens(s) => /\ Range(t.warnings) = Warned(LinesOf(Scan(s.said)[LogRead(s)]))
                            /\ IsInjective(t.warnings)
<1> DEFINE x == Scan(s.said)[LogRead(s)]
           t == IF Listens(s) THEN Hears(s, s.pendingErr) ELSE s
<1>1. x \in LinesRead
  BY ChildFields, PlacesRead, ScanTyped DEF Unsettled
<1>2. Listens(s) => ~s.streamError /\ s.pendingErr = x.open /\ Range(s.warnings) = Warned(x.lines) /\ IsInjective(s.warnings)
  BY DEF Unsettled, Hearing, Reading, Counting, Listens
<1> HIDE DEF x
<1>3. CASE Listens(s)
  <2>1. t = Hears(s, x.open)
    BY <1>2, <1>3
  <2>2. LET v == Hears(s, x.open) IN
        v \in ChildSet /\ BesideStderr(v, s) /\ Range(v.warnings) = Warned(LinesOf(x)) /\ IsInjective(v.warnings)
    BY <1>1, <1>2, <1>3, Heard
  <2> HIDE DEF t
  <2>3. t \in ChildSet /\ BesideStderr(t, s) /\ Range(t.warnings) = Warned(LinesOf(x)) /\ IsInjective(t.warnings)
    BY <2>1, <2>2
  <2> QED BY <2>3 DEF t, x
<1>4. CASE ~Listens(s)
  BY <1>4 DEF BesideStderr
<1> QED BY <1>3, <1>4

(* A child whose reader was not stopped hands over its last line.            *)
LEMMA LastLineRead ==
    ASSUME NEW s \in ChildSet, ~s.stopped, NEW x \in LinesRead, s.given = x.lines, s.pending = x.open, Counting(s)
    PROVE  LET t == WithLastLine(s) IN
           /\ t \in ChildSet /\ BesideStdout(t, s) /\ t.given = LinesOf(x) /\ Counting(t)
           /\ ~t.streamError /\ s.reader # "capped" => Len(t.rows) + t.malformed = Len(t.given)
           /\ IsPrefix(t.given, x.lines) \/ Front(t.given) = x.lines
           /\ t.streamError => Front(t.given) = x.lines
<1>1. x.lines \in Seq(Seq(Written)) /\ x.open \in Seq(Written)
  BY DEF LinesRead
<1>2. CASE s.pending = <<>>
  <2>1. WithLastLine(s) = s /\ LinesOf(x) = x.lines
    BY <1>2, LinesOfTyped DEF WithLastLine
  <2>2. IsPrefix(s.given, x.lines)
    BY <1>1, PrefixReflexive
  <2>3. ~s.streamError /\ (s.reader # "capped" => Len(s.rows) + s.malformed = Len(s.given))
    BY DEF Counting
  <2> QED BY <2>1, <2>2, <2>3 DEF BesideStdout
<1>3. CASE s.pending # <<>>
  <2> DEFINE t == Dispatch(s, s.pending)
  <2>1. WithLastLine(s) = t /\ LinesOf(x) = Append(x.lines, x.open)
    BY <1>3, LinesOfTyped DEF WithLastLine
  <2>2. t \in ChildSet /\ BesideStdout(t, s) /\ t.given = Append(s.given, s.pending)
    BY <1>1, Dispatched
  <2>3. Counting(t) /\ (s.reader # "capped" /\ ~t.streamError => Len(t.rows) + t.malformed = Len(t.given))
    BY <1>1, CountsStay
  <2> HIDE DEF t
  <2>4. t.given = LinesOf(x) /\ Front(t.given) = x.lines
    BY <1>1, <2>1, <2>2, PrefixOfAppend
  <2> QED BY <2>1, <2>2, <2>3, <2>4
<1> QED BY <1>2, <1>3

LEMMA ClosesExactly ==
    ASSUME StreamInv, NEW code \in {0, 1}, Closes(code)
    PROVE  StreamInv'
<1> DEFINE heard == IF Listens(child) THEN Hears(child, child.pendingErr) ELSE child
           read == IF heard.stopped THEN heard ELSE WithLastLine(heard)
           outcome == IF read.streamError THEN "malformed"
                      ELSE IF read.aborted THEN "superseded"
                      ELSE IF heard.stopped THEN "truncated"
                      ELSE IF code = 0 THEN "complete"
                      ELSE IF read.gated /\ LimitSaid(read) THEN "limited" ELSE "failed"
           k == OutRead(child)
           x == Scan(child.text)[k]
           w == LinesOf(Scan(child.said)[LogRead(child)])
           said == Said(child.text)
<1>1. child \in ChildSet /\ child.phase = "running" /\ Unsettled(child)
  BY DEF StreamInv, Closes
<1>2. child' = [read EXCEPT !.phase = "settled", !.outcome = outcome]
  BY DEF Closes
<1>3. code = 0 => child.log = <<>> /\ (child.out = <<>> \/ child.stopped)
  BY DEF Closes
<1>4. /\ heard \in ChildSet /\ BesideStderr(heard, child)
      /\ Listens(child) => Range(heard.warnings) = Warned(w) /\ IsInjective(heard.warnings)
  BY <1>1, AllHeard
<1>5. /\ k \in 0 .. Len(child.text) /\ child.text \in Seq(Written) /\ child.said \in Seq(Written)
      /\ LogRead(child) \in 0 .. Len(child.said)
  BY <1>1, ChildFields, PlacesRead DEF Unsettled
<1>6. x \in LinesRead /\ x.lines \in Seq(Seq(Written)) /\ LinesOf(x) \in Seq(Seq(Written))
  <2>1. x \in LinesRead
    BY <1>5, ScanTyped
  <2> QED BY <2>1, LinesOfTyped DEF LinesRead
<1>7. said \in Seq(Seq(Written)) /\ IsPrefix(x.lines, said)
  BY <1>5, ReadIsSaid
<1>8. /\ IsPrefix(child.given, x.lines) /\ Counting(child)
      /\ ~child.stopped => child.given = x.lines /\ child.pending = x.open
  BY <1>1 DEF Unsettled, Reading
<1>9. child.aborted => child.stopped
  BY <1>1 DEF Unsettled
<1>10. code = 0 /\ ~child.stopped => LinesOf(x) = said
  <2> SUFFICES ASSUME code = 0, ~child.stopped PROVE LinesOf(x) = said
    OBVIOUS
  <2>1. Len(child.out) = 0
    BY <1>3
  <2>2. k = Len(child.text)
    BY <1>5, <2>1 DEF OutRead
  <2> QED BY <2>2 DEF Said
<1>11. code = 0 => w = Said(child.said) /\ child.stderr = child.said
  <2> SUFFICES ASSUME code = 0 PROVE w = Said(child.said) /\ child.stderr = child.said
    OBVIOUS
  <2>1. Len(child.log) = 0
    BY <1>3
  <2>2. LogRead(child) = Len(child.said)
    BY <1>5, <2>1 DEF LogRead
  <2>3. child.stderr = SubSeq(child.said, 1, Len(child.said))
    BY <1>1, <2>2 DEF Unsettled, PipesAreFifo
  <2> QED BY <1>5, <2>2, <2>3, SubSeqFull DEF Said
<1>12. /\ heard.reader = child.reader /\ heard.text = child.text /\ heard.said = child.said /\ heard.stderr = child.stderr
       /\ heard.stopped = child.stopped /\ heard.aborted = child.aborted /\ heard.given = child.given
       /\ heard.pending = child.pending /\ Counting(heard)
  BY <1>4, <1>8 DEF BesideStderr, Counting
<1> HIDE DEF heard, k, x, w, said
<1>13. /\ read \in ChildSet /\ Counting(read)
       /\ read.reader = child.reader /\ read.text = child.text /\ read.said = child.said
       /\ read.stderr = child.stderr /\ read.aborted = child.aborted /\ read.warnings = heard.warnings
       /\ child.stopped => read.given = child.given /\ read.stopped
       /\ ~child.stopped =>
            /\ read.given = LinesOf(x) /\ (read.streamError => Front(read.given) = x.lines)
            /\ IsPrefix(read.given, x.lines) \/ Front(read.given) = x.lines
            /\ ~read.streamError /\ child.reader # "capped" => Len(read.rows) + read.malformed = Len(read.given)
  <2>1. CASE child.stopped
    BY <1>4, <1>12, <2>1
  <2>2. CASE ~child.stopped
    <3>1. read = WithLastLine(heard)
      BY <1>12, <2>2
    <3>2. LET t == WithLastLine(heard) IN
          /\ t \in ChildSet /\ BesideStdout(t, heard) /\ t.given = LinesOf(x) /\ Counting(t)
          /\ ~t.streamError /\ heard.reader # "capped" => Len(t.rows) + t.malformed = Len(t.given)
          /\ IsPrefix(t.given, x.lines) \/ Front(t.given) = x.lines
          /\ t.streamError => Front(t.given) = x.lines
      BY <1>4, <1>6, <1>8, <1>12, <2>2, LastLineRead
    <3> HIDE DEF read
    <3> QED BY <1>12, <2>2, <3>1, <3>2 DEF BesideStdout
  <2> QED BY <2>1, <2>2
<1>14. outcome \in Endings
  BY DEF Endings
<1>15. /\ outcome = "malformed" <=> read.streamError
       /\ outcome = "complete" => ~read.streamError /\ ~read.aborted /\ ~child.stopped /\ code = 0
       /\ outcome = "truncated" => ~read.streamError /\ ~read.aborted /\ child.stopped
       /\ ~child.stopped => outcome \in {"malformed", "complete", "limited", "failed"}
  BY <1>9, <1>12, <1>13
<1> HIDE DEF read, outcome
<1>16. /\ child' \in ChildSet /\ child'.phase = "settled" /\ child'.outcome = outcome
       /\ child'.reader = read.reader /\ child'.text = read.text /\ child'.said = read.said
       /\ child'.stderr = read.stderr /\ child'.aborted = read.aborted /\ child'.warnings = read.warnings
       /\ child'.given = read.given /\ child'.rows = read.rows /\ child'.malformed = read.malformed
  BY <1>2, <1>13, <1>14 DEF ChildSet
<1>17. read.given \in Seq(Seq(Written))
  BY <1>13 DEF ChildSet
<1>18. \/ IsPrefix(child'.given, Said(child'.text))
       \/ child'.outcome \in {"failed", "limited", "malformed"} /\ IsPrefix(Front(child'.given), Said(child'.text))
  <2>1. Said(child'.text) = said
    BY <1>13, <1>16 DEF said
  <2>2. CASE child.stopped
    <3>1. IsPrefix(read.given, said)
      BY <1>6, <1>7, <1>8, <1>13, <1>17, <2>2, PrefixTransitive
    <3> QED BY <1>16, <2>1, <3>1
  <2>3. CASE ~child.stopped /\ outcome = "complete"
    <3>1. IsPrefix(read.given, said)
      BY <1>7, <1>10, <1>13, <1>15, <2>3, PrefixReflexive
    <3> QED BY <1>16, <2>1, <3>1
  <2>4. CASE ~child.stopped /\ outcome # "complete"
    <3>1. outcome \in {"failed", "limited", "malformed"}
      BY <1>15, <2>4
    <3>2. IsPrefix(read.given, said) \/ IsPrefix(Front(read.given), said)
      BY <1>6, <1>7, <1>13, <1>17, <2>4, PrefixTransitive
    <3> QED BY <1>16, <2>1, <3>1, <3>2
  <2> QED BY <2>2, <2>3, <2>4
<1>19. child'.outcome = "complete" => ~child'.aborted /\ CompleteIsAll'
  <2> SUFFICES ASSUME outcome = "complete" PROVE ~child'.aborted /\ CompleteIsAll'
    BY <1>16
  <2>1. ~read.streamError /\ ~read.aborted /\ ~child.stopped /\ code = 0
    BY <1>15
  <2>2. child'.given = Said(child'.text)
    BY <1>10, <1>13, <1>16, <2>1 DEF said
  <2>3. Len(child'.rows) + child'.malformed = Len(Said(child'.text)) \/ child'.reader = "capped"
    BY <1>13, <1>16, <2>1, <2>2
  <2>4. ASSUME Listens(child')
        PROVE  /\ Range(child'.warnings) = Warned(Said(child'.said)) /\ IsInjective(child'.warnings)
               /\ child'.stderr = child'.said
    <3>1. Listens(child)
      BY <1>13, <1>16, <2>4 DEF Listens
    <3> QED BY <1>4, <1>11, <1>13, <1>16, <2>1, <3>1
  <2>5. ASSUME Listens(child') PROVE AnswerTruncated' <=> ReportsRunCapReached(child'.said)
    <3>1. child'.outcome # "truncated"
      BY <1>16
    <3> QED BY <2>4, <2>5, <3>1 DEF AnswerTruncated
  <2>6. CompleteIsAll'
    BY <2>2, <2>3, <2>4, <2>5 DEF CompleteIsAll
  <2> QED BY <1>16, <2>1, <2>6
<1>20. child'.outcome = "truncated" =>
         /\ ~child'.aborted
         /\ child'.reader = "capped" /\ Len(child'.rows) + child'.malformed = RowCap
  BY <1>13, <1>15, <1>16 DEF Counting
<1>21. child'.outcome = "malformed" => child'.reader = "insists" /\ ~IsRow(Last(child'.given))
  BY <1>13, <1>15, <1>16 DEF Counting
<1>22. StreamsAreExact'
  BY <1>18, <1>19, <1>20, <1>21 DEF StreamsAreExact
<1> QED BY <1>16, <1>22 DEF StreamInv

LEMMA UnsettledIsExact ==
    ASSUME child \in ChildSet, Unsettled(child)
    PROVE  StreamsAreExact
<1>1. OutRead(child) \in 0 .. Len(child.text) /\ child.text \in Seq(Written) /\ child.given \in Seq(Seq(Written))
  BY ChildFields, PlacesRead DEF Unsettled
<1>2. /\ IsPrefix(child.given, Scan(child.text)[OutRead(child)].lines)
      /\ Scan(child.text)[OutRead(child)].lines \in Seq(Seq(Written))
  BY <1>1, ScanTyped DEF Unsettled, Reading, LinesRead
<1>3. IsPrefix(child.given, Said(child.text))
  BY <1>1, <1>2, ReadIsSaid, PrefixTransitive
<1>4. child.outcome \notin Endings
  BY StreamAssumption DEF Unsettled
<1>5. child.outcome # "complete" /\ child.outcome # "truncated" /\ child.outcome # "malformed"
  BY <1>4 DEF Endings
<1> QED BY <1>3, <1>5 DEF StreamsAreExact

LEMMA SettledBefore ==
    ASSUME StreamInv, child.phase = "asked", NEW o \in {"limited", "superseded", "missing"}, Settle(o)
    PROVE  StreamInv'
<1>1. child \in ChildSet /\ Unsettled(child)
  BY DEF StreamInv
<1>2. StreamsAreExact
  BY <1>1, UnsettledIsExact
<1>3. o \in Endings
  BY DEF Endings
<1>4. /\ child' \in ChildSet /\ child'.phase = "settled" /\ child'.outcome = o
      /\ child'.text = child.text /\ child'.given = child.given
  BY <1>1, <1>3 DEF Settle, ChildSet
<1>5. IsPrefix(child'.given, Said(child'.text))
  <2>1. IsPrefix(child.given, Said(child.text))
    <3>1. child.outcome \notin Endings
      BY <1>1, StreamAssumption DEF Unsettled
    <3>2. child.outcome \notin {"failed", "limited", "malformed"}
      BY <3>1 DEF Endings
    <3> QED BY <1>2, <3>2 DEF StreamsAreExact
  <2> QED BY <1>4, <2>1
<1>6. child'.outcome # "complete" /\ child'.outcome # "truncated" /\ child'.outcome # "malformed"
  BY <1>4
<1>7. StreamsAreExact'
  BY <1>5, <1>6 DEF StreamsAreExact
<1> QED BY <1>4, <1>7 DEF StreamInv

(* A call that is started or given up has still read what it had read.       *)
Resembles(t, s) ==
    /\ t.reader = s.reader /\ t.out = s.out /\ t.log = s.log
    /\ t.text = s.text /\ t.said = s.said /\ t.stderr = s.stderr /\ t.pending = s.pending /\ t.pendingErr = s.pendingErr
    /\ t.streamError = s.streamError /\ t.given = s.given /\ t.rows = s.rows /\ t.malformed = s.malformed
    /\ t.warnings = s.warnings /\ t.outcome = s.outcome

LEMMA StartedOrAborted ==
    ASSUME NEW s \in ChildSet, NEW t \in ChildSet, Unsettled(s), Resembles(t, s),
           s.stopped => t.stopped, t.stopped /\ ~s.stopped => t.aborted, s.aborted => t.aborted,
           t.phase = "asked" => ~t.stopped, t.phase = "running" /\ t.aborted => t.stopped
    PROVE  Unsettled(t)
<1>1. OutRead(t) = OutRead(s) /\ LogRead(t) = LogRead(s)
  BY DEF Resembles, OutRead, LogRead
<1>2. PipesAreFifo(t) /\ Hearing(t, LogRead(t))
  BY <1>1 DEF Resembles, Unsettled, PipesAreFifo, Hearing, Listens
<1>3. Counting(t)
  <2>1. Counting(s)
    BY DEF Unsettled, Reading
  <2> QED BY <2>1 DEF Resembles, Counting
<1>4. Reading(t, OutRead(t))
  BY <1>1, <1>3 DEF Resembles, Unsettled, Reading
<1> QED BY <1>2, <1>4 DEF Resembles, Unsettled

LEMMA StreamStep ==
    ASSUME StreamInv, [StreamNext]_childVars
    PROVE  StreamInv'
<1>1. child \in ChildSet /\ (child.phase # "settled" => Unsettled(child))
  BY DEF StreamInv
<1>2. ASSUME NEW s, child' = s, s \in ChildSet, s.phase # "settled", Unsettled(s) PROVE StreamInv'
  BY <1>2 DEF StreamInv
<1>3. CASE Blocked
  BY <1>3, SettledBefore DEF Blocked
<1>4. CASE Start
  <2>1. CASE child.aborted /\ Settle("superseded")
    BY <1>4, <2>1, SettledBefore DEF Start
  <2>2. CASE ~child.aborted /\ Settle("missing")
    BY <1>4, <2>2, SettledBefore DEF Start
  <2>3. CASE ~child.aborted /\ child' = [child EXCEPT !.phase = "running"]
    <3>1. child.phase = "asked" /\ Unsettled(child) /\ ~child.stopped
      BY <1>1, <1>4 DEF Start, Unsettled
    <3>2. /\ child' \in ChildSet /\ Resembles(child', child) /\ child'.phase = "running"
          /\ child'.stopped = child.stopped /\ child'.aborted = child.aborted
      BY <1>1, <2>3 DEF ChildSet, Resembles
    <3>3. Unsettled(child')
      BY <1>1, <2>3, <3>1, <3>2, StartedOrAborted
    <3> QED BY <1>2, <3>2, <3>3
  <2> QED BY <1>4, <2>1, <2>2, <2>3 DEF Start
<1>5. CASE Abort
  <2>1. child.phase \in {"asked", "running"} /\ Unsettled(child)
    BY <1>1, <1>5 DEF Abort
  <2>2. /\ child' \in ChildSet /\ Resembles(child', child) /\ child'.phase = child.phase
        /\ child'.aborted /\ (child'.stopped <=> child.phase = "running")
    <3> DEFINE stopped == child.phase = "running"
    <3>1. stopped \in BOOLEAN /\ child' = [child EXCEPT !.aborted = TRUE, !.stopped = stopped]
      BY <1>5 DEF Abort
    <3> HIDE DEF stopped
    <3>2. child' \in ChildSet /\ Resembles(child', child) /\ child'.phase = child.phase /\ child'.aborted /\ child'.stopped = stopped
      BY <1>1, <3>1 DEF ChildSet, Resembles
    <3> QED BY <3>2 DEF stopped
  <2>3. child.stopped => child.phase = "running"
    BY <2>1 DEF Unsettled
  <2>4. Unsettled(child')
    BY <1>1, <2>1, <2>2, <2>3, StartedOrAborted
  <2> QED BY <1>2, <2>1, <2>2, <2>4
<1>6. ASSUME NEW n \in 1 .. Len(child.out), ReadStdout(n) PROVE StreamInv'
  BY <1>1, <1>2, <1>6, StdoutRead DEF ReadStdout
<1>7. ASSUME NEW n \in 1 .. Len(child.log), ReadStderr(n) PROVE StreamInv'
  BY <1>1, <1>2, <1>7, StderrRead DEF ReadStderr
<1>8. ASSUME NEW code \in {0, 1}, Closes(code) PROVE StreamInv'
  BY <1>8, ClosesExactly
<1>9. CASE UNCHANGED childVars
  <2>1. child' = child
    BY <1>9 DEF childVars
  <2>2. CASE child.phase = "settled"
    <3>1. StreamsAreExact'
      BY <2>1, <2>2 DEF StreamInv, StreamsAreExact, CompleteIsAll, AnswerTruncated
    <3> QED BY <1>1, <2>1, <2>2, <3>1 DEF StreamInv
  <2>3. CASE child.phase # "settled"
    BY <1>1, <1>2, <2>1, <2>3
  <2> QED BY <2>2, <2>3
<1> QED BY <1>3, <1>4, <1>5, <1>6, <1>7, <1>8, <1>9 DEF StreamNext

LEMMA StreamStarts == StreamInit => StreamInv
<1> SUFFICES ASSUME StreamInit PROVE StreamInv
  OBVIOUS
<1>1. <<>> \in Seq(Written)
  OBVIOUS
<1>2. (\A out \in Outputs : out \in Seq(Written)) /\ \A log \in Logs : log \in Seq(Written)
  BY StreamAssumption
<1>3. child \in ChildSet /\ child.phase = "asked" /\ Unsettled(child)
  <2>1. CASE \E gated \in BOOLEAN, out \in Outputs, log \in Logs : child = ChildOf("counts", gated, out, log)
    BY <1>2, <2>1, ChildAsked
  <2>2. CASE \E out \in Outputs : child = ChildOf("insists", FALSE, out, <<>>)
    <3> DEFINE reader == "insists"  gated == FALSE  log == <<>>
    <3>1. PICK out \in Outputs : child = ChildOf(reader, gated, out, log)
      BY <2>2
    <3>2. reader \in {"counts", "insists", "capped"} /\ gated \in BOOLEAN /\ log \in Seq(Written) /\ out \in Seq(Written)
      BY <1>1, <1>2
    <3> HIDE DEF reader, gated, log
    <3> QED BY <3>1, <3>2, ChildAsked
  <2>3. CASE \E out \in Outputs : child = ChildOf("capped", TRUE, out, <<>>)
    <3> DEFINE reader == "capped"  gated == TRUE  log == <<>>
    <3>1. PICK out \in Outputs : child = ChildOf(reader, gated, out, log)
      BY <2>3
    <3>2. reader \in {"counts", "insists", "capped"} /\ gated \in BOOLEAN /\ log \in Seq(Written) /\ out \in Seq(Written)
      BY <1>1, <1>2
    <3> HIDE DEF reader, gated, log
    <3> QED BY <3>1, <3>2, ChildAsked
  <2> QED BY <2>1, <2>2, <2>3 DEF StreamInit
<1> QED BY <1>3 DEF StreamInv

(* Whatever the child writes and however it is cut into pieces, whoever is   *)
(* stopped, gives up or fails: what a reader holds is of the lines read so   *)
(* far (process.mjs:38-130).                                                 *)
THEOREM StreamInvariant == StreamSpec => []StreamInv
<1>1. StreamInit => StreamInv
  BY StreamStarts
<1>2. StreamInv /\ [StreamNext]_childVars => StreamInv'
  BY StreamStep
<1> QED BY <1>1, <1>2, PTL DEF StreamSpec

(* Readers are given whole lines, each once and in order, and an answer says *)
(* what it is of (process.mjs:79-130).                                       *)
THEOREM StreamsStayExact == StreamSpec => []StreamsAreExact
<1>1. StreamInv => StreamsAreExact
  BY UnsettledIsExact DEF StreamInv
<1> QED BY <1>1, StreamInvariant, PTL
===========================================================================
