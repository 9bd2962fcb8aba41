------------------------- MODULE AtMostOnceDelivery -------------------------
(***************************************************************************)
(* What durable prompt delivery promises, said over two facts per command: *)
(* whether the provider was ever given it, and the verdict the user reads. *)
(*                                                                         *)
(*   - no prompt reaches the provider twice, its retries included;         *)
(*   - "completed" is only said of a prompt the provider was given;        *)
(*   - a verdict is final, except that "uncertain" may be resolved.        *)
(***************************************************************************)
EXTENDS Naturals

CONSTANT Attempt      \* <<prompt, attempt number>> pairs

VARIABLES
    given,      \* given[c]: how often the provider was given attempt c
    verdict     \* verdict[c]: what the control plane says of it

promise == <<given, verdict>>

SamePrompt(c) == {d \in Attempt : d[1] = c[1]}

\* "closed": the control plane has forgotten the attempt.
Verdicts == {"open", "completed", "failed", "uncertain", "closed"}

Promised ==
    /\ given = [c \in Attempt |-> 0]
    /\ verdict = [c \in Attempt |-> "open"]

Give(c) ==
    /\ \A d \in SamePrompt(c) : given[d] = 0
    /\ given' = [given EXCEPT ![c] = 1]
    /\ UNCHANGED verdict

\* The verdicts attempt c may pass to from the one it has.
MayBecome(c) ==
    CASE verdict[c] = "open" ->
           {"open", "failed", "uncertain"}
           \cup (IF given[c] = 1 THEN {"completed"} ELSE {})
      [] verdict[c] = "uncertain" ->
           {"uncertain", "failed", "closed"}
           \cup (IF given[c] = 1 THEN {"completed"} ELSE {})
      [] OTHER -> {verdict[c], "closed"}

\* One sweep may judge several attempts.
Judge ==
    /\ verdict' \in [Attempt -> Verdicts]
    /\ \A c \in Attempt : verdict'[c] \in MayBecome(c)
    /\ UNCHANGED given

PromiseNext == Judge \/ \E c \in Attempt : Give(c)

PromiseSpec == Promised /\ [][PromiseNext]_promise
=============================================================================
