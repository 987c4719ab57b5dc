----------------------------- MODULE RateLimit -----------------------------
(***************************************************************************)
(* The rate limit of one GitHub host as the dashboard sees it              *)
(* (.github/extensions/actions-metrics/lib/gh.mjs, and runLines of         *)
(* process.mjs): calls are held back while the host cools down, a refusal  *)
(* becomes a cooldown through one shared probe of `GET /rate_limit`, and a *)
(* new token forgets what was learnt under the old one.                    *)
(*                                                                         *)
(* Hosts share nothing but the token, so one host is enough. Time is a     *)
(* counter. Settling a probe and resuming the calls that await it happens  *)
(* in one turn of the event loop and is one step. Every call that can be   *)
(* refused carries a signal that a credential change aborts                *)
(* (store.mjs:79, rowstore.mjs:301, instance.mjs:648).                     *)
(***************************************************************************)
EXTENDS Naturals, FiniteSets, Nothing

CONSTANTS
    Calls,      \* gated calls of gh, one after the other
    Probes,     \* `/rate_limit` probes of noteRateLimit
    Secondary,  \* SECONDARY_COOLDOWN_MS
    MaxTime,    \* bound: the clock
    MaxTokens   \* bound: credential changes

VARIABLES
    now,
    token,      \* authGeneration
    cooldown,   \* cooldowns.get(key), or None; `token`: whose limit it is (history)
    current,    \* cooldownProbes.get(key), or None
    probe,      \* probe[p]: a suspended probe
    call,       \* call[k]: a suspended call
    told        \* the latest time a caller was told to wait for under this token (history)

rateVars == <<now, token, cooldown, current, probe, call, told>>

Times == 0 .. MaxTime + Secondary
Tokens == 0 .. MaxTokens

Cooldown == [until : Times, token : Tokens]

ASSUME RateAssumption ==
    /\ None \notin Probes /\ None \notin Cooldown
    /\ Secondary \in Nat \ {0} /\ MaxTime \in Nat /\ MaxTokens \in Nat

ProbeType ==
    {[pc |-> "idle"]} \union
    [pc : {"asking"}, generation : Tokens, started : 0 .. MaxTime,
     token : Tokens]        \* the token of the call that was refused (history)

CallType ==
    {[pc |-> "idle"]} \union
    [pc : {"preflight", "sent"}, token : Tokens, aborted : BOOLEAN] \union
    [pc : {"noting"}, awaits : Probes]

RateTypeOK ==
    /\ now \in 0 .. MaxTime
    /\ token \in Tokens
    /\ cooldown \in Cooldown \union {None}
    /\ current \in Probes \union {None}
    /\ probe \in [Probes -> ProbeType]
    /\ call \in [Calls -> CallType]
    /\ told \in Times

RateInit ==
    /\ now = 0 /\ token = 0 /\ told = 0
    /\ cooldown = None /\ current = None
    /\ probe = [p \in Probes |-> [pc |-> "idle"]]
    /\ call = [k \in Calls |-> [pc |-> "idle"]]

Active == cooldown # None /\ cooldown.until > now

Ends(k) == call' = [call EXCEPT ![k] = [pc |-> "idle"]]

---------------------------------------------------------------------------
(* Mutant: the last cooldown wins. *)
LastCooldown(until, t) == [until |-> until, token |-> t]

(* setRateLimitCooldown: the later of two ends wins.                       *)
LongerCooldown(until, t) ==
    IF cooldown = None \/ cooldown.until < until
      THEN [until |-> until, token |-> t] ELSE cooldown

(* Mutant: a cooldown is installed whatever token it was measured with. *)
InstallAlways(until, generation, t) ==
    /\ cooldown' = LongerCooldown(until, t)
    /\ told' = IF told < until THEN until ELSE told

(* A cooldown measured under `generation` is installed only while that is  *)
(* the token in force; the caller is told its end either way.              *)
Install(until, generation, t) ==
    IF generation = token
      THEN /\ cooldown' = LongerCooldown(until, t)
           /\ told' = IF told < cooldown'.until THEN cooldown'.until ELSE told
      ELSE UNCHANGED <<cooldown, told>>

(* assertRateBudget: an active cooldown answers at once, otherwise the     *)
(* budget is asked for. A call of `run` does without that question.        *)
Begins(k) ==
    /\ call[k].pc = "idle"
    /\ ~Active
    /\ \E pc \in {"preflight", "sent"} :
         call' = [call EXCEPT ![k] = [pc |-> pc, token |-> token, aborted |-> FALSE]]
    /\ UNCHANGED <<now, token, cooldown, current, probe, told>>

(* The budget is there, or the host reports none: gh is started, unless    *)
(* the call has been aborted in the meantime.                              *)
BudgetLeft(k) ==
    /\ call[k].pc = "preflight"
    /\ IF call[k].aborted THEN Ends(k)
         ELSE call' = [call EXCEPT ![k].pc = "sent"]
    /\ UNCHANGED <<now, token, cooldown, current, probe, told>>

BudgetSpent(k) ==
    /\ call[k].pc = "preflight"
    /\ \E reset \in now + 1 .. MaxTime : Install(reset, call[k].token, call[k].token)
    /\ Ends(k)
    /\ UNCHANGED <<now, token, current, probe>>

(* gh has answered, failed for another reason, or was killed by the abort. *)
Completes(k) ==
    /\ call[k].pc = "sent"
    /\ Ends(k)
    /\ UNCHANGED <<now, token, cooldown, current, probe, told>>

(* gh was refused: noteRateLimit joins the probe under way or starts one.  *)
IsRefused(k) ==
    /\ call[k].pc = "sent" /\ ~call[k].aborted
    /\ IF current # None
         THEN /\ call' = [call EXCEPT ![k] = [pc |-> "noting", awaits |-> current]]
              /\ UNCHANGED <<current, probe>>
         ELSE \E p \in Probes :
              /\ probe[p].pc = "idle"
              /\ probe' = [probe EXCEPT ![p] =
                   [pc |-> "asking", generation |-> token, started |-> now,
                    token |-> call[k].token]]
              /\ current' = p
              /\ call' = [call EXCEPT ![k] = [pc |-> "noting", awaits |-> p]]
    /\ UNCHANGED <<now, token, cooldown, told>>

(* What a probe concludes: the reset time GitHub reports or the refusal    *)
(* named, or the secondary cooldown; all but the first counted from the    *)
(* start of the probe.                                                     *)
Conclusions(p) == probe[p].started + 1 .. MaxTime \union {probe[p].started + Secondary}

ProbeAnswers(p) ==
    /\ probe[p].pc = "asking"
    /\ \E until \in Conclusions(p) : Install(until, probe[p].generation, probe[p].token)
    /\ probe' = [probe EXCEPT ![p] = [pc |-> "idle"]]
    /\ current' = IF current = p THEN None ELSE current
    /\ call' = [k \in Calls |->
                 IF call[k].pc = "noting" /\ call[k].awaits = p THEN [pc |-> "idle"] ELSE call[k]]
    /\ UNCHANGED <<now, token>>

(* setCanvasGhToken, and the aborts of invalidateAuthCaches.               *)
SetToken ==
    /\ token < MaxTokens
    /\ token' = token + 1
    /\ cooldown' = None /\ current' = None
    /\ told' = 0
    /\ call' = [k \in Calls |->
                 IF call[k].pc \in {"preflight", "sent"}
                   THEN [call[k] EXCEPT !.aborted = TRUE] ELSE call[k]]
    /\ UNCHANGED <<now, probe>>

Tick ==
    /\ now < MaxTime
    /\ now' = now + 1
    /\ UNCHANGED <<token, cooldown, current, probe, call, told>>

RateNext ==
    \/ \E k \in Calls :
         Begins(k) \/ BudgetLeft(k) \/ BudgetSpent(k) \/ Completes(k) \/ IsRefused(k)
    \/ \E p \in Probes : ProbeAnswers(p)
    \/ SetToken \/ Tick

RateSafety == RateInit /\ [][RateNext]_rateVars

---------------------------------------------------------------------------
(* Nobody is let through before the time that others were told to wait     *)
(* for, however refusals, preflights and expiries interleave: the cooldown *)
(* only ever ends later (gh.mjs:111).                                      *)
PauseIsKept == told > now => Active /\ cooldown.until >= told

(* A cooldown in force is the limit of the token in force: neither a       *)
(* preflight nor a probe nor a refusal of a replaced token holds back      *)
(* calls made with the new one (gh.mjs:176, 215).                          *)
NewTokenIsNotBlocked == cooldown # None => cooldown.token = token

(* Concurrent refusals share one probe (gh.mjs:166), also when a probe of  *)
(* a replaced token ends after a new one has begun.                        *)
OneProbe ==
    \A p, q \in Probes :
        /\ probe[p].pc = "asking" /\ probe[p].generation = token
        /\ probe[q].pc = "asking" /\ probe[q].generation = token
        => p = q

(* Why: with the three above, the inductive invariant of RateLimitProofs.  *)
ToldIsInstalled == told # 0 => cooldown # None /\ told <= cooldown.until

RunningIsOfTheToken ==
    \A k \in Calls :
        call[k].pc \in {"preflight", "sent"} /\ ~call[k].aborted => call[k].token = token

CurrentProbe ==
    \A p \in Probes :
        probe[p].pc = "asking" =>
            /\ probe[p].generation <= token
            /\ probe[p].generation = token => current = p /\ probe[p].token = token

RateInv ==
    /\ RateTypeOK /\ NewTokenIsNotBlocked
    /\ ToldIsInstalled /\ RunningIsOfTheToken /\ CurrentProbe

===========================================================================
