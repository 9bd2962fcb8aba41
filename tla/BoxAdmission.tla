---------------------------- MODULE BoxAdmission ----------------------------
(***************************************************************************)
(* Capacity leases shared by the runner processes of a box                 *)
(* (runner/src/box-admission.ts), one file operation at a time.            *)
(*                                                                         *)
(* A slot is a directory; its owner file names the process that made it.   *)
(* A root is a family of numbered slots: the quotas a request names (the   *)
(* exclusive group, the execution target, the provider), the mutation lock *)
(* and the box itself.  acquire() claims one slot of each quota in turn,   *)
(* then, under the mutation lock, counts the box's slots and claims its    *)
(* weight; whatever it has is given back when a later claim fails.         *)
(*                                                                         *)
(* A process is synchronous inside an operation, so only other processes   *)
(* interleave with it, between any two of its file operations.             *)
(*                                                                         *)
(* File operations fail.  What the code does then is modelled operation by *)
(* operation; "met" remembers which kinds of failures occurred:            *)
(*   "throw"  a directory cannot be made, or an abandoned slot not be      *)
(*            removed, in acquire, which throws with what it has claimed   *)
(*   "scan"   a root cannot be read, or an abandoned slot not be removed,  *)
(*            in usedSlots, which returns 0                                *)
(*   "keep"   releaseSlot fails, and leaves the slot                       *)
(*   "read"   the owner file of a live process cannot be read              *)
(*   "stall"  a live process does not write its owner file in five seconds *)
(***************************************************************************)
EXTENDS Naturals, Sequences, FiniteSets, FiniteSetsExt, SequencesExt

CONSTANTS
    Proc,          \* runner processes, by pid
    Session,       \* sessions
    HomeOf,        \* the process that runs each session
    Quotas,        \* quota roots
    QuotaLimit,    \* slots of each quota root
    NeedOf,        \* the quota roots a session's request names, in order
    WeightOf,      \* its weight
    Limits,        \* box limits an operator may set
    StartLimit,    \* the one configured at the start
    Crashing,      \* processes that may die
    Observed,      \* <<p, r>>: roots whose use p is asked for
    Failing,       \* processes that may fail to make a slot or write its
                   \* owner file
    Failures,      \* kinds of failures that occur
    MaxFailures    \* bound: how many, one of a kind

VARIABLES
    dir,           \* each slot: "free", "new" (no owner file yet), "old"
                   \* (the same for five seconds), or its owner
    at,            \* the operation each process has under way
    held,          \* held[p]: slots of each session that p admitted
    limit,         \* limit[p]: the ceiling p was given
    dead,          \* processes that died
    met,           \* history: kinds of failures met
    stranded,      \* history: <<p, slot>> that p left behind in a failure
    robbed         \* history: a slot was removed that was not abandoned

vars == <<dir, at, held, limit, dead, met, stranded, robbed>>

Box == "box"
Mutation == "capacity-mutation"
Roots == Quotas \cup {Box, Mutation}

ASSUME RootAssumption == Box \notin Quotas /\ Mutation \notin Quotas
ASSUME LimitAssumption ==
    /\ Limits \subseteq Nat \ {0} /\ StartLimit \in Limits
    /\ QuotaLimit \in [Quotas -> Nat \ {0}]
ASSUME RequestAssumption ==
    /\ HomeOf \in [Session -> Proc]
    /\ WeightOf \in [Session -> Nat \ {0}]
    /\ \A s \in Session : NeedOf[s] \in Seq(Quotas) /\ IsInjective(NeedOf[s])
ASSUME FailureAssumption ==
    /\ Failures \subseteq {"throw", "scan", "keep", "read", "stall"}
    /\ MaxFailures \in Nat

\* Slots are numbered from 0 up to the largest limit.
SlotLimit == Max(Limits \cup {QuotaLimit[r] : r \in Quotas})
Slot == Roots \X (0 .. SlotLimit - 1)

Idle == [pc |-> "idle", sess |-> CHOOSE s \in Session : TRUE, root |-> Box,
         index |-> 0, attempt |-> 0, got |-> <<>>, claimed |-> <<>>,
         listed |-> {}, used |-> 0, drop |-> <<>>, won |-> FALSE,
         only |-> FALSE]

Init ==
    /\ dir = [slot \in Slot |-> "free"]
    /\ at = [p \in Proc |-> Idle]
    /\ held = [s \in Session |-> {}]
    /\ limit = [p \in Proc |-> StartLimit]
    /\ dead = {}
    /\ met = {} /\ stranded = {} /\ robbed = FALSE

At(p, pc) == p \notin dead /\ at[p].pc = pc

Failed == <<met, stranded, robbed>>
Files == <<held, limit, dead, Failed>>

Meets(kind) ==
    /\ kind \in Failures \ met /\ Cardinality(met) < MaxFailures
    /\ met' = met \cup {kind}

-----------------------------------------------------------------------------
(* acquire: the roots in turn.                                             *)

\* The roots of session s from root r on: its quotas, then the mutation
\* lock, then the box.
RootsOf(s) == NeedOf[s] \o <<Mutation, Box>>

NextRoot(s, r) ==
    RootsOf(s)[1 + CHOOSE i \in DOMAIN RootsOf(s) : RootsOf(s)[i] = r]

\* Fault: a quota is taken for the largest slot number.
LimitOf_Inclusive(p, r) ==
    CASE r \in Quotas -> QuotaLimit[r] + 1
      [] r = Mutation -> 1
      [] r = Box -> limit[p]

LimitOf(p, r) ==
    CASE r \in Quotas -> QuotaLimit[r]
      [] r = Mutation -> 1
      [] r = Box -> limit[p]

CountOf(s, r) == IF r = Box THEN WeightOf[s] ELSE 1

\* A root's claim begins at slot-0; the box is counted first.
Enter(a, r) ==
    [a EXCEPT !.root = r, !.index = 0, !.attempt = 0, !.got = <<>>,
              !.pc = IF r = Box THEN "list" ELSE "mkdir",
              !.listed = {}, !.used = 0]

\* Slots are given back one after the other; then the call returns.
GiveBack(slots) == [Idle EXCEPT !.pc = "drop", !.drop = slots]

\* Fault: the quota slots claimed before stay claimed.
Lose_KeepsQuotas(a) == GiveBack(a.got)

\* The claim of a.root failed: its own slots first, then the mutation lock
\* and the quotas (which a.claimed has in this order).
Lose(a) == GiveBack(a.got \o a.claimed)

MutationSlots(a) == SelectSeq(a.claimed, LAMBDA d : d[1] = Mutation)

\* Fault: a throw keeps the mutation lock as well.
Throw_KeepsMutation(a) == Idle

\* A throw leaves acquire.  The mutation lock alone is given back, by the
\* finally around the claim of the box.
Throw(a) ==
    IF a.root = Box THEN GiveBack(MutationSlots(a)) ELSE Idle

LeftBy(a) ==
    ToSet(a.got \o a.claimed) \ (IF a.root = Box THEN ToSet(MutationSlots(a))
                                                 ELSE {})

\* The claim of a.root is complete.  Once the box is claimed the mutation
\* lock is given back and the session is admitted.
Gain(a) ==
    CASE a.root = Box ->
           [GiveBack(MutationSlots(a)) EXCEPT
               !.sess = a.sess, !.claimed = a.claimed \o a.got, !.won = TRUE]
      [] a.root = Mutation ->
           Enter([a EXCEPT !.claimed = a.got \o @], Box)
      [] OTHER ->
           Enter([a EXCEPT !.claimed = @ \o a.got],
                 NextRoot(a.sess, a.root))

\* claimSlots goes on to the next slot, or ends.
Onward(p, a) ==
    CASE Len(a.got) = CountOf(a.sess, a.root) -> Gain(a)
      [] Len(a.got) < CountOf(a.sess, a.root)
           /\ a.index + 1 < LimitOf(p, a.root) ->
           [a EXCEPT !.index = @ + 1, !.attempt = 0, !.pc = "mkdir"]
      [] OTHER -> Lose(a)

\* A request heavier than the limit is refused without a trace.
Acquire(p, s) ==
    /\ At(p, "idle") /\ HomeOf[s] = p /\ held[s] = {}
    /\ WeightOf[s] <= limit[p]
    /\ at' = [at EXCEPT ![p] = Enter([Idle EXCEPT !.sess = s], RootsOf(s)[1])]
    /\ UNCHANGED <<dir, Files>>

-----------------------------------------------------------------------------
(* claimSlots: mkdir, owner file, and what to do with a slot that exists.  *)

Here(p) == <<at[p].root, at[p].index>>

AboutToWrite(slot) == \E p \in Proc : At(p, "owner") /\ Here(p) = slot

MakeSlot(p) ==
    /\ At(p, "mkdir")
    /\ \/ /\ dir[Here(p)] = "free"
          /\ dir' = [dir EXCEPT ![Here(p)] = "new"]
          /\ at' = [at EXCEPT ![p].pc = "owner"]
       \/ /\ dir[Here(p)] # "free"
          /\ at' = [at EXCEPT ![p].pc = "inspect"]
          /\ UNCHANGED dir
    /\ UNCHANGED Files

\* The directory cannot be made: the next slot is tried.
MakeSlotFails(p) ==
    /\ At(p, "mkdir") /\ p \in Failing
    /\ at' = [at EXCEPT ![p] = Onward(p, @)]
    /\ UNCHANGED <<dir, Files>>

\* The owner file is written by path: into whatever directory is there.
WriteOwner(p) ==
    /\ At(p, "owner")
    /\ dir[Here(p)] # "free"
    /\ dir' = [dir EXCEPT ![Here(p)] = p]
    /\ \E a \in {[at[p] EXCEPT !.got = Append(@, Here(p))]} :
          at' = [at EXCEPT ![p] = Onward(p, a)]
    /\ UNCHANGED Files

\* The directory is gone: the next slot is tried.
OwnerHasNoSlot(p) ==
    /\ At(p, "owner") /\ dir[Here(p)] = "free"
    /\ at' = [at EXCEPT ![p] = Onward(p, @)]
    /\ UNCHANGED <<dir, Files>>

\* The owner file cannot be written: the slot is removed, when it can be,
\* and the next one tried.
WriteOwnerFails(p) ==
    /\ At(p, "owner") /\ dir[Here(p)] # "free" /\ p \in Failing
    /\ \/ dir' = [dir EXCEPT ![Here(p)] = "free"] /\ UNCHANGED met
       \/ Meets("keep") /\ UNCHANGED dir
    /\ at' = [at EXCEPT ![p] = Onward(p, @)]
    /\ UNCHANGED <<held, limit, dead, stranded, robbed>>

\* Fault: a directory without an owner file is taken for an abandoned one.
Verdict_NoGrace(slot) ==
    CASE dir[slot] = "free" -> "gone"
      [] dir[slot] \in {"new", "old"} -> "stale"
      [] dir[slot] \in Proc -> IF dir[slot] \in dead THEN "stale" ELSE "used"

\* Fault: an owner file is trusted whether or not its process lives.
Verdict_Trusting(slot) ==
    CASE dir[slot] = "free" -> "gone"
      [] dir[slot] = "new" -> "used"
      [] dir[slot] = "old" -> "stale"
      [] dir[slot] \in Proc -> "used"

\* inspectSlot: a slot is in use while its owner's process lives, and for
\* five seconds before it has an owner file.
Verdict(slot) ==
    CASE dir[slot] = "free" -> "gone"
      [] dir[slot] = "new" -> "used"
      [] dir[slot] = "old" -> "stale"
      [] dir[slot] \in Proc -> IF dir[slot] \in dead THEN "stale" ELSE "used"

\* The slot existed: a vanished one is tried once more.
Retry(p) ==
    IF at[p].attempt = 0
      THEN [at[p] EXCEPT !.attempt = 1, !.pc = "mkdir"]
      ELSE Onward(p, at[p])

Inspect(p) ==
    /\ At(p, "inspect")
    /\ \/ /\ Verdict(Here(p)) = "used"
          /\ at' = [at EXCEPT ![p] = Onward(p, at[p])]
       \/ /\ Verdict(Here(p)) = "gone"
          /\ at' = [at EXCEPT ![p] = Retry(p)]
       \/ /\ Verdict(Here(p)) = "stale"
          /\ at' = [at EXCEPT ![p].pc = "reclaim"]
    /\ UNCHANGED <<dir, Files>>

\* rmSync(slot): whatever directory is there by now.
Removes(slot) ==
    /\ dir' = [dir EXCEPT ![slot] = "free"]
    /\ robbed' = (robbed \/ Verdict(slot) = "used" \/ AboutToWrite(slot))

Reclaim(p) ==
    /\ At(p, "reclaim")
    /\ Removes(Here(p))
    /\ at' = [at EXCEPT ![p] = Retry(p)]
    /\ UNCHANGED <<held, limit, dead, met, stranded>>

\* The directory of a quota or of the mutation lock cannot be made, or an
\* abandoned slot cannot be removed.
AcquireThrows(p) ==
    /\ \/ At(p, "mkdir") /\ at[p].root # Box /\ at[p].index = 0
                         /\ at[p].attempt = 0
       \/ At(p, "reclaim")
    /\ Meets("throw")
    /\ at' = [at EXCEPT ![p] = Throw(@)]
    /\ stranded' = stranded \cup ({p} \X LeftBy(at[p]))
    /\ UNCHANGED <<dir, held, limit, dead, robbed>>

Leased(slot) == dir[slot] \in Proc \ dead

\* The owner file of a live process cannot be read, and is not new: the
\* slot is taken for an abandoned one.
Misread(p) ==
    /\ \/ /\ At(p, "inspect") /\ Leased(Here(p))
          /\ at' = [at EXCEPT ![p].pc = "reclaim"]
       \/ /\ At(p, "count") /\ at[p].listed # {}
          /\ Leased(<<at[p].root, Min(at[p].listed)>>)
          /\ at' = [at EXCEPT ![p].index = Min(at[p].listed),
                              ![p].pc = "clean"]
    /\ Meets("read")
    /\ UNCHANGED <<dir, held, limit, dead, stranded, robbed>>

-----------------------------------------------------------------------------
(* usedSlots: readdir, then every listed slot in turn.  The same scan runs *)
(* for diagnostics (observe), outside the mutation lock.                   *)

Observe(p, r) ==
    /\ At(p, "idle")
    /\ at' = [at EXCEPT ![p] = [Idle EXCEPT !.root = r, !.pc = "list",
                                           !.only = TRUE]]
    /\ UNCHANGED <<dir, Files>>

List(p) ==
    /\ At(p, "list")
    /\ at' = [at EXCEPT
          ![p].listed = {i \in 0 .. SlotLimit - 1 :
                           dir[<<at[p].root, i>>] # "free"},
          ![p].pc = "count"]
    /\ UNCHANGED <<dir, Files>>

\* Fault: only the slots below the ceiling are counted.
Counted_BelowLimit(p, a) == a.index < limit[p]

\* Every listed slot counts, also above a ceiling that was lowered.
Counted(p, a) == TRUE

Count(p) ==
    /\ At(p, "count") /\ at[p].listed # {}
    /\ \E i \in {Min(at[p].listed)} :
       \E a \in {[at[p] EXCEPT !.index = i]} :
         \/ /\ Verdict(<<a.root, i>>) = "used"
            /\ at' = [at EXCEPT ![p] = [a EXCEPT
                          !.listed = @ \ {i},
                          !.used = IF Counted(p, a) THEN @ + 1 ELSE @]]
         \/ /\ Verdict(<<a.root, i>>) = "gone"
            /\ at' = [at EXCEPT ![p] = [a EXCEPT !.listed = @ \ {i}]]
         \/ /\ Verdict(<<a.root, i>>) = "stale"
            /\ at' = [at EXCEPT ![p] = [a EXCEPT !.pc = "clean"]]
    /\ UNCHANGED <<dir, Files>>

\* The scan reclaims what it finds abandoned.
Clean(p) ==
    /\ At(p, "clean")
    /\ Removes(Here(p))
    /\ at' = [at EXCEPT ![p].listed = @ \ {at[p].index}, ![p].pc = "count"]
    /\ UNCHANGED <<held, limit, dead, met, stranded>>

\* The scan fails, at the directory or at a slot it would reclaim: what it
\* has counted is dropped, and the use is 0.
ScanFails(p) ==
    /\ At(p, "list") \/ At(p, "clean")
    /\ Meets("scan")
    /\ at' = [at EXCEPT ![p].listed = {}, ![p].used = 0, ![p].pc = "count"]
    /\ UNCHANGED <<dir, held, limit, dead, stranded, robbed>>

\* The count is complete: there is room for the request, or there is not.
Decide(p) ==
    /\ At(p, "count") /\ at[p].listed = {}
    /\ \E a \in {[at[p] EXCEPT !.index = 0]} :
         \/ /\ a.only
            /\ at' = [at EXCEPT ![p] = Idle]
         \/ /\ ~a.only /\ a.used + WeightOf[a.sess] <= limit[p]
            /\ at' = [at EXCEPT ![p] = [a EXCEPT !.pc = "mkdir", !.used = 0]]
         \/ /\ ~a.only /\ a.used + WeightOf[a.sess] > limit[p]
            /\ at' = [at EXCEPT ![p] = Lose(a)]
    /\ UNCHANGED <<dir, Files>>

-----------------------------------------------------------------------------
(* Giving slots back, and the rest of the class.                           *)

\* releaseSlot: only a slot whose owner file names this process.
Released(p, slot) ==
    IF dir[slot] = p THEN [dir EXCEPT ![slot] = "free"] ELSE dir

DropSlot(p) ==
    /\ At(p, "drop") /\ at[p].drop # <<>>
    /\ dir' = Released(p, Head(at[p].drop))
    /\ at' = [at EXCEPT ![p].drop = Tail(@)]
    /\ UNCHANGED Files

\* The owner file cannot be read or the directory not be removed: the slot
\* stays as it is and is forgotten.
ReleaseFails(p) ==
    /\ At(p, "drop") /\ at[p].drop # <<>> /\ dir[Head(at[p].drop)] = p
    /\ Meets("keep")
    /\ stranded' = stranded \cup {<<p, Head(at[p].drop)>>}
    /\ at' = [at EXCEPT ![p].drop = Tail(@)]
    /\ UNCHANGED <<dir, held, limit, dead, robbed>>

\* The call returns: an admitted session holds what it claimed.
Finish(p) ==
    /\ At(p, "drop") /\ at[p].drop = <<>>
    /\ held' = IF at[p].won
                 THEN [held EXCEPT ![at[p].sess] =
                         {d \in ToSet(at[p].claimed) : d[1] # Mutation}]
                 ELSE held
    /\ at' = [at EXCEPT ![p] = Idle]
    /\ UNCHANGED <<dir, limit, dead, Failed>>

\* release(): the session ended.
Release(p, s) ==
    /\ At(p, "idle") /\ HomeOf[s] = p /\ held[s] # {}
    /\ held' = [held EXCEPT ![s] = {}]
    /\ \E order \in {SetToSeq(held[s])} :
          at' = [at EXCEPT ![p] = GiveBack(order)]
    /\ UNCHANGED <<dir, limit, dead, Failed>>

\* Fault: the new ceiling is applied as a difference.
SetLimit_Relative(p, n) ==
    /\ At(p, "idle") /\ n # limit[p]
    /\ limit' = [limit EXCEPT ![p] = @ - n]
    /\ UNCHANGED <<dir, at, held, dead, Failed>>

\* setLimit(): a new ceiling; what is held stays held.
SetLimit(p, n) ==
    /\ At(p, "idle") /\ n # limit[p]
    /\ limit' = [limit EXCEPT ![p] = n]
    /\ UNCHANGED <<dir, at, held, dead, Failed>>

Die(p) ==
    /\ p \in Crashing \ dead
    /\ dead' = dead \cup {p}
    /\ held' = [s \in Session |-> IF HomeOf[s] = p THEN {} ELSE held[s]]
    /\ at' = [at EXCEPT ![p] = Idle]
    /\ UNCHANGED <<dir, limit, Failed>>

\* Five seconds after it was made a slot has its owner file, unless the
\* process that made it died.
Age(slot) ==
    /\ dir[slot] = "new" /\ ~AboutToWrite(slot)
    /\ dir' = [dir EXCEPT ![slot] = "old"]
    /\ UNCHANGED <<at, Files>>

\* Or the process stood still for as long.
Stall(slot) ==
    /\ dir[slot] = "new" /\ AboutToWrite(slot)
    /\ Meets("stall")
    /\ dir' = [dir EXCEPT ![slot] = "old"]
    /\ UNCHANGED <<at, held, limit, dead, stranded, robbed>>

Operate(p) ==
    \/ MakeSlot(p) \/ WriteOwner(p) \/ OwnerHasNoSlot(p)
    \/ Inspect(p) \/ Reclaim(p) \/ List(p) \/ Count(p) \/ Clean(p) \/ Decide(p)
    \/ DropSlot(p) \/ Finish(p)

Next ==
    \/ \E slot \in Slot : Age(slot) \/ Stall(slot)
    \/ \E p \in Proc :
         \/ Operate(p) \/ MakeSlotFails(p) \/ WriteOwnerFails(p)
         \/ AcquireThrows(p) \/ Misread(p) \/ ScanFails(p) \/ ReleaseFails(p)
         \/ Die(p)
         \/ \E s \in Session : Acquire(p, s) \/ Release(p, s)
         \/ \E n \in Limits : SetLimit(p, n)
         \/ \E r \in Roots \ {Mutation} : <<p, r>> \in Observed /\ Observe(p, r)

Spec == Init /\ [][Next]_vars

\* Operations run to their end, time passes, and the retry timer of the
\* admission queue asks again every 250 ms.
Fairness ==
    /\ \A slot \in Slot : WF_vars(Age(slot))
    /\ \A p \in Proc : WF_vars(Operate(p))
    /\ \A s \in Session : SF_vars(Acquire(HomeOf[s], s))

FairSpec == Spec /\ Fairness

-----------------------------------------------------------------------------
(* Properties.                                                             *)

Places == {"idle", "mkdir", "owner", "inspect", "reclaim", "list", "count",
           "clean", "drop"}

\* The shape of the slots and of the operations under way.
TypeOK ==
    /\ dir \in [Slot -> {"free", "new", "old"} \cup Proc]
    /\ \A p \in Proc : /\ at[p].pc \in Places /\ at[p].root \in Roots
                        /\ Here(p) \in Slot
                        /\ ToSet(at[p].claimed \o at[p].got \o at[p].drop)
                             \subseteq Slot
    /\ held \in [Session -> SUBSET Slot]
    /\ limit \in [Proc -> Limits] /\ dead \subseteq Proc
    /\ met \subseteq Failures /\ stranded \subseteq Proc \X Slot
    /\ robbed \in BOOLEAN

Running == {s \in Session : held[s] # {}}

Winning == {p \in Proc : At(p, "drop") /\ at[p].won}

\* Capacity in use, by the sessions that were admitted.
Load == FoldSet(LAMBDA s, sum : WeightOf[s] + sum, 0,
                Running \cup {at[p].sess : p \in Winning})

\* An admitted session has its slots on disk, and no two share one, until
\* it gives them back.
LeasesAreExclusive ==
    /\ \A s \in Running : \A slot \in held[s] : dir[slot] = HomeOf[s]
    /\ \A s, t \in Running : s # t => held[s] \cap held[t] = {}

\* No quota root has more admitted sessions than slots.
QuotasHold ==
    \A r \in Quotas :
        Cardinality({s \in Running : r \in ToSet(NeedOf[s])}) <= QuotaLimit[r]

\* Slots of root r that a live process left behind in a failure.
Kept(r) ==
    {slot \in {r} \X (0 .. SlotLimit - 1) :
        \E p \in Proc \ dead : dir[slot] = p /\ <<p, slot>> \in stranded}

\* When no operation is under way, every slot of a live process belongs to
\* an admitted session, or is one that a throw left behind or a failed
\* removal kept.
NothingLeaks ==
    (\A p \in Proc : at[p].pc = "idle") =>
        \A slot \in Slot :
            /\ Leased(slot) => \/ \E s \in Running : slot \in held[s]
                               \/ slot \in Kept(slot[1])
            /\ dir[slot] = "new" => dead # {} \/ "keep" \in met

\* inspectSlot removes a slot that is in use only when an owner file of a
\* live process cannot be read or took five seconds to be written, or when
\* two live processes judge one abandoned slot: left by a claim whose owner
\* file was neither written nor its directory removed, or by a third process
\* that died.
RobbedOnlyBy ==
    robbed => \/ met \cap {"read", "stall", "keep"} # {}
              \/ dead # {} /\ Cardinality(Proc) > 2

\* The slots on disk and the sessions that run agree across processes: as
\* long as no slot in use was removed, leases are exclusive and quotas hold
\* whatever throws; no capacity leaks but what a named failure leaves.
SlotInv ==
    /\ TypeOK /\ NothingLeaks /\ RobbedOnlyBy
    /\ ~robbed => LeasesAreExclusive /\ QuotasHold

\* "Atomic slot-directory creation enforces the box ceiling" (the comment on
\* the class).
CeilingAtAdmission ==
    \A p \in Winning' \ Winning : Load' <= limit[p]

\* A scan that fails counts nothing; the slots themselves still bound the
\* load by the largest ceiling.
CeilingOrSlots ==
    \A p \in Winning' \ Winning :
        Load' <= IF "scan" \in met THEN Max(Limits) ELSE limit[p]

\* No session is admitted past the ceiling of its process, also when the
\* ceiling was lowered below what is in use, as long as no slot in use was
\* removed; after a failed scan not past the largest ceiling.
CeilingHolds == [][~robbed => CeilingOrSlots]_vars

\* The comment on the class as it stands.
CeilingEnforced == [][CeilingAtAdmission]_vars

\* What the admitted sessions of live processes leave, and the slots that a
\* failure left behind, have room for s.
Fits(s) ==
    /\ Kept(Mutation) = {}
    /\ Load + Cardinality(Kept(Box)) + WeightOf[s] <= limit[HomeOf[s]]
    /\ \A r \in ToSet(NeedOf[s]) :
         Cardinality({t \in Running : r \in ToSet(NeedOf[t])})
           + Cardinality(Kept(r)) < QuotaLimit[r]

Denied(s) ==
    Proc \ dead = {HomeOf[s]} /\ held[s] = {} /\ Fits(s)

\* What a dead process held comes back: no session of a survivor waits for
\* ever for capacity that only the dead one has, whatever file operation
\* the crash cut short, wherever the ceiling is moved and whatever failed.
CapacityReturns == \A s \in Session : []<>~Denied(s)
=============================================================================
