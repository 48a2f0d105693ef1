------------------------------- MODULE Ledger -------------------------------
(***************************************************************************)
(* The allocation ledger of rivetlua-runtime (alloc.rs): the quota of a    *)
(* VM, the reservations and charges that stand for what it has allocated,  *)
(* the tokens the host's allocator handed out for them, and the containers *)
(* that own charges: PairedLuaCharges (a table, a string, a heap object)   *)
(* and AllocationCharges (the vectors of the collector and of call frames) *)
(* with its two-phase normalization.                                       *)
(*                                                                         *)
(* A ticket is one logical allocation.  It is a reservation, then a charge *)
(* that changes owner and size until it is dropped.  The VM is single      *)
(* threaded and the host's callback may not re-enter it, so each operation *)
(* is one step; only a normalization is two, with whatever its caller does *)
(* in between.                                                             *)
(***************************************************************************)
EXTENDS Integers, FiniteSetsExt

CONSTANTS
    Tickets,       \* identities of logical allocations
    Groups,        \* AllocationCharges collections
    Sizes,         \* how many bytes callers ask for
    Limits,        \* the quotas the host sets
    Points,        \* FailPoints
    External,      \* TRUE iff a host allocator admits the allocations
    FrameRollback, \* TRUE iff frames roll back captures: rollback_open_prefix
    MaxOrdinal     \* bound: allocation attempts in one behaviour

None == "none"
Domains == {"LuaHeap", "Host"}
Parts == {"first", "second"}

ASSUME LedgerAssumption ==
    /\ Sizes \subseteq Nat /\ Limits \subseteq Nat
    /\ IsFiniteSet(Tickets)
    /\ External \in BOOLEAN /\ FrameRollback \in BOOLEAN
    /\ None \notin Points
    /\ Groups \cap ({None, "reservation", "charge", "detached", "pending"} \cup Parts) = {}
    /\ MaxOrdinal \in Nat

VARIABLES
    state,      \* LedgerState, the contents of the shared Cell
    tickets,    \* who owns the ticket, its bytes, its domain, whether it has a token
    out,        \* the host's view: tokens not released yet, with their sizes
    prepared    \* at most one PreparedPartialNormalization

vars == <<state, tickets, out, prepared>>

Free == [at |-> None, bytes |-> 0, dom |-> "Host", token |-> FALSE]
Owned(S) == {i \in Tickets : tickets[i].at \in S}
BytesOf(S) == MapThenSumSet(LAMBDA i : tickets[i].bytes, S)

\* Nothing runs between the two halves of a normalization but its caller.
Ready == prepared = {}

-----------------------------------------------------------------------------
(* LedgerState.                                                            *)

Max2(a, b) == IF a > b THEN a ELSE b

\* record_peaks.
WithPeaks(s) ==
    [s EXCEPT !.peaks = [committed   |-> Max2(@.committed, s.committed),
                         outstanding |-> Max2(@.outstanding, s.committed + s.reserved),
                         held        |-> [d \in Domains |-> Max2(@.held[d], s.held[d])]]]

\* The bytes of a reservation are set aside, and given back when it is dropped.
Book(s, b, d) ==
    WithPeaks([s EXCEPT !.reserved = @ + b, !.booked[d] = @ + b])

UnbookTotal(s, b, d) ==
    IF s.reserved < b THEN [s EXCEPT !.poisoned = TRUE]
    ELSE [s EXCEPT !.reserved = @ - b]
Unbook(s, b, d) ==
    IF s.reserved < b THEN [s EXCEPT !.poisoned = TRUE]
    ELSE IF s.booked[d] < b THEN [s EXCEPT !.reserved = @ - b, !.poisoned = TRUE]
    ELSE [s EXCEPT !.reserved = @ - b, !.booked[d] = @ - b]

\* refund_on_drop_domain.
Refund(s, b, d) ==
    IF s.committed < b \/ s.held[d] < b \/ s.poisoned THEN [s EXCEPT !.poisoned = TRUE]
    ELSE [s EXCEPT !.committed = @ - b, !.held[d] = @ - b]

Attempt(s) == [s EXCEPT !.nextOrdinal = @ + 1]

\* AllocationAdmission: the host's books of tokens.
Admit(i, b) == out' = IF External /\ b > 0 THEN out \cup {<<i, b>>} ELSE out
Release(S) == out' = out \ {<<i, tickets[i].bytes>> : i \in {j \in S : tickets[j].token}}

-----------------------------------------------------------------------------
(* reserve_at, and the checkpoint and Vec reservation of reserve_vec.      *)

FitsCommitted(b) == state.committed + b <= state.limit
Fits(b) == state.committed + state.reserved + b <= state.limit
Injected == state.failAt = state.nextOrdinal

MayAttempt == Ready /\ ~state.poisoned /\ state.nextOrdinal < MaxOrdinal

\* Over the quota (or over usize), or the ordinal chosen to fail, or refused by
\* the host: only the attempt is counted.
ReserveFails(b) ==
    /\ MayAttempt
    /\ \/ ~Fits(b) /\ state' = Attempt(state)
       \/ Fits(b) /\ Injected /\ state' = [Attempt(state) EXCEPT !.failAt = 0]
       \/ Fits(b) /\ ~Injected /\ External /\ b > 0 /\ state' = Attempt(state)
    /\ UNCHANGED <<tickets, out, prepared>>

\* The bytes were reserved, but the FailPoint or Vec::try_reserve_exact fails:
\* the reservation is dropped at once.
ReserveVecFails(b, d, p) ==
    /\ MayAttempt /\ Fits(b) /\ ~Injected
    /\ LET s == Unbook(Book(Attempt(state), b, d), b, d)
       IN  state' = IF s.failOnce = p THEN [s EXCEPT !.failOnce = None] ELSE s
    /\ UNCHANGED <<tickets, out, prepared>>

\* checkpoint on its own, where the code initializes or reuses storage.
Checkpoint(p) ==
    /\ Ready /\ ~state.poisoned
    /\ state.failOnce = p
    /\ state' = [state EXCEPT !.failOnce = None]
    /\ UNCHANGED <<tickets, out, prepared>>

\* The FailPoint passed on the way; None for AllocationLedger::reserve, which
\* passes none and reserves for the host.
Reserve(i, b, d, p) ==
    /\ MayAttempt /\ Fits(b) /\ ~Injected
    /\ tickets[i].at = None
    /\ \/ p = None /\ d = "Host"
       \/ p \in Points /\ state.failOnce # p
    /\ state' = Book(Attempt(state), b, d)
    /\ tickets' = [tickets EXCEPT ![i] = [at |-> "reservation", bytes |-> b, dom |-> d,
                                          token |-> External /\ b > 0]]
    /\ Admit(i, b)
    /\ UNCHANGED prepared

\* Reservation::drop.
DropReservationKeepsToken(i) ==
    /\ Ready /\ tickets[i].at = "reservation"
    /\ state' = Unbook(state, tickets[i].bytes, tickets[i].dom)
    /\ tickets' = [tickets EXCEPT ![i] = Free]
    /\ UNCHANGED <<out, prepared>>
DropReservation(i) ==
    /\ Ready /\ tickets[i].at = "reservation"
    /\ state' = Unbook(state, tickets[i].bytes, tickets[i].dom)
    /\ tickets' = [tickets EXCEPT ![i] = Free]
    /\ Release({i})
    /\ UNCHANGED prepared

\* The reservation becomes a charge; commit_charge checks every balance before
\* it changes one.
CommittedLate(s, b, d) ==
    [s EXCEPT !.reserved = @ - b, !.booked[d] = @ - b, !.committed = @ + b, !.held[d] = @ + b]
Committed(s, b, d) ==
    WithPeaks([s EXCEPT !.reserved = @ - b, !.booked[d] = @ - b,
                        !.committed = @ + b, !.held[d] = @ + b])

\* Reservation::commit_charge; Reservation::commit detaches the charge from its
\* ticket, which is allowed only without a host allocator.
CommitCharge(i, to) ==
    /\ Ready /\ tickets[i].at = "reservation"
    /\ to = "detached" => ~External
    /\ ~state.poisoned
    /\ state.reserved >= tickets[i].bytes /\ state.booked[tickets[i].dom] >= tickets[i].bytes
    /\ state' = Committed(state, tickets[i].bytes, tickets[i].dom)
    /\ tickets' = [tickets EXCEPT ![i].at = to, ![i].token = @ /\ to = "charge"]
    /\ UNCHANGED <<out, prepared>>

\* AllocationLedger::refund of what was committed that way.
RefundDetached(i) ==
    /\ Ready /\ tickets[i].at = "detached" /\ tickets[i].dom = "Host"
    /\ ~state.poisoned
    /\ state.committed >= tickets[i].bytes /\ state.held["Host"] >= tickets[i].bytes
    /\ state' = Refund(state, tickets[i].bytes, "Host")
    /\ tickets' = [tickets EXCEPT ![i] = Free]
    /\ UNCHANGED <<out, prepared>>

-----------------------------------------------------------------------------
(* Owners of charges.                                                      *)

\* The charges S are dropped one after the other: tokens go back to the host,
\* then the bytes.
RefundAll(s, S, d) ==
    IF s.committed < BytesOf(S) \/ s.held[d] < BytesOf(S) \/ s.poisoned
    THEN [s EXCEPT !.poisoned = TRUE]
    ELSE [s EXCEPT !.committed = @ - BytesOf(S), !.held[d] = @ - BytesOf(S)]

DropAll(S, d) ==
    /\ state' = RefundAll(state, S, d)
    /\ Release(S)

\* AllocationCharge::drop.
DropCharge(i) ==
    /\ Ready /\ tickets[i].at = "charge"
    /\ DropAll({i}, tickets[i].dom)
    /\ tickets' = [tickets EXCEPT ![i] = Free]
    /\ UNCHANGED prepared

\* PairedLuaCharges::replace_first and replace_second: the part takes over the
\* bytes and the token of the charge, whose own drop then has nothing left to
\* refund; the old part is released.
ReplacePartRefundsNew(i, p) ==
    /\ Ready /\ tickets[i].at = "charge" /\ tickets[i].dom = "LuaHeap"
    /\ DropAll(Owned({p}) \cup {i}, "LuaHeap")
    /\ tickets' = [j \in Tickets |-> IF j = i THEN [tickets[i] EXCEPT !.at = p, !.token = FALSE]
                                     ELSE IF j \in Owned({p}) THEN Free ELSE tickets[j]]
    /\ UNCHANGED prepared
ReplacePart(i, p) ==
    /\ Ready /\ tickets[i].at = "charge" /\ tickets[i].dom = "LuaHeap"
    /\ DropAll(Owned({p}), "LuaHeap")
    /\ tickets' = [j \in Tickets |-> IF j = i THEN [tickets[i] EXCEPT !.at = p]
                                     ELSE IF j \in Owned({p}) THEN Free ELSE tickets[j]]
    /\ UNCHANGED prepared

\* clear_second, and PairedLuaCharges::drop, which releases both parts.
ReleaseParts(P) ==
    /\ Ready /\ Owned(P) # {}
    /\ DropAll(Owned(P), "LuaHeap")
    /\ tickets' = [j \in Tickets |-> IF j \in Owned(P) THEN Free ELSE tickets[j]]
    /\ UNCHANGED prepared

\* AllocationCharges::try_push, push_prepared: one domain for all entries.
TryPush(i, g) ==
    /\ Ready /\ tickets[i].at = "charge"
    /\ \A j \in Owned({g}) : tickets[j].dom = tickets[i].dom
    /\ tickets' = [tickets EXCEPT ![i].at = g]
    /\ UNCHANGED <<state, out, prepared>>

TryAbsorb(g, h) ==
    /\ Ready /\ g # h /\ Owned({h}) # {}
    /\ \A i \in Owned({g}), j \in Owned({h}) : tickets[i].dom = tickets[j].dom
    /\ tickets' = [j \in Tickets |-> IF j \in Owned({h}) THEN [tickets[j] EXCEPT !.at = g]
                                     ELSE tickets[j]]
    /\ UNCHANGED <<state, out, prepared>>

\* The entries are dropped one by one; also what normalizing to 0 bytes does.
ClearCharges(g) ==
    /\ Ready
    /\ \E i \in Owned({g}) : DropAll(Owned({g}), tickets[i].dom)
    /\ tickets' = [j \in Tickets |-> IF j \in Owned({g}) THEN Free ELSE tickets[j]]
    /\ UNCHANGED prepared

-----------------------------------------------------------------------------
(* Normalization: the entries of a group are replaced by one charge for    *)
(* the bytes actually used.                                                *)

\* prepare_normalize: a token for the new charge, and the state as it is now.
PrepareNormalize(g, actual, i) ==
    /\ Ready /\ ~state.poisoned
    /\ tickets[i].at = None
    /\ actual > 0 /\ actual < BytesOf(Owned({g}))
    /\ \E e \in Owned({g}) :
          LET d == tickets[e].dom
              excess == BytesOf(Owned({g})) - actual
          IN  /\ state.committed >= excess /\ state.held[d] >= excess
              /\ prepared' = {[group |-> g, id |-> i, dom |-> d, excess |-> excess,
                               before |-> state]}
              /\ tickets' = [tickets EXCEPT ![i] = [at |-> "pending", bytes |-> actual, dom |-> d,
                                                    token |-> External]]
    /\ Admit(i, actual)
    /\ UNCHANGED state

\* commit_normalize: the old tokens go, and the state noted by the preparation,
\* less the excess, is written back.
CommitNormalize ==
    /\ \E p \in prepared :
          /\ state' = [p.before EXCEPT !.peaks = state.peaks, !.committed = @ - p.excess,
                                       !.held[p.dom] = @ - p.excess]
          /\ Release(Owned({p.group}))
          /\ tickets' = [j \in Tickets |->
                           IF j = p.id THEN [tickets[j] EXCEPT !.at = p.group]
                           ELSE IF j \in Owned({p.group}) THEN Free ELSE tickets[j]]
    /\ prepared' = {}

\* CallFrame::rollback_open_prefix: between the two halves it removes the
\* roots of the upvalues captured last and reclaims them, dropping the charges of
\* both (a root's is the host's, an upvalue's the Lua heap's), or gives up.
ReclaimUpvalue(i) ==
    /\ FrameRollback
    /\ \E p \in prepared : p.dom = "Host"
    /\ tickets[i].at = "charge"
    /\ DropAll({i}, tickets[i].dom)
    /\ tickets' = [tickets EXCEPT ![i] = Free]
    /\ UNCHANGED prepared

AbandonNormalize ==
    /\ FrameRollback
    /\ \E p \in prepared :
          /\ p.dom = "Host"
          /\ Release({p.id})
          /\ tickets' = [tickets EXCEPT ![p.id] = Free]
    /\ prepared' = {}
    /\ UNCHANGED state

-----------------------------------------------------------------------------
(* set_limit, fail_once_at and fail_once_at_ordinal.                       *)

Configure ==
    /\ Ready
    /\ \/ \E l \in Limits : state' = [state EXCEPT !.limit = l]
       \/ \E p \in Points : state' = [state EXCEPT !.failOnce = p]
       \/ \E n \in state.nextOrdinal .. MaxOrdinal : state' = [state EXCEPT !.failAt = n]
    /\ UNCHANGED <<tickets, out, prepared>>

Init ==
    /\ \E l \in Limits :
          state = [limit |-> l, committed |-> 0, reserved |-> 0,
                   held |-> [d \in Domains |-> 0], booked |-> [d \in Domains |-> 0],
                   peaks |-> [committed |-> 0, outstanding |-> 0,
                              held |-> [d \in Domains |-> 0]],
                   poisoned |-> FALSE, nextOrdinal |-> 1, failOnce |-> None, failAt |-> 0]
    /\ tickets = [i \in Tickets |-> Free]
    /\ out = {}
    /\ prepared = {}

OneTicket(i) ==
    \/ \E b \in Sizes, d \in Domains, p \in Points \cup {None} : Reserve(i, b, d, p)
    \/ DropReservation(i)
    \/ \E to \in {"charge", "detached"} : CommitCharge(i, to)
    \/ RefundDetached(i)
    \/ DropCharge(i)
    \/ \E p \in Parts : ReplacePart(i, p)
    \/ \E g \in Groups : TryPush(i, g)
    \/ \E g \in Groups, actual \in Sizes : PrepareNormalize(g, actual, i)
    \/ ReclaimUpvalue(i)

Next ==
    \/ \E b \in Sizes : ReserveFails(b)
    \/ \E b \in Sizes, d \in Domains, p \in Points : ReserveVecFails(b, d, p)
    \/ \E p \in Points : Checkpoint(p)
    \/ \E i \in Tickets : OneTicket(i)
    \/ \E P \in {{"second"}, Parts} : ReleaseParts(P)
    \/ \E g, h \in Groups : TryAbsorb(g, h)
    \/ \E g \in Groups : ClearCharges(g)
    \/ CommitNormalize \/ AbandonNormalize
    \/ Configure

Spec == Init /\ [][Next]_vars

-----------------------------------------------------------------------------
(* Properties.                                                             *)

Reservations(d) == {i \in Owned({"reservation"}) : tickets[i].dom = d}
Charges(d) == {i \in Owned({"charge", "detached"} \cup Parts \cup Groups) : tickets[i].dom = d}

\* The balances are what the tickets add up to, domain by domain: nothing is
\* counted twice, lost, or left over by a failure, whatever the order in which
\* owners replace, move, normalize and drop their charges.
Conserved ==
    /\ \A d \in Domains : /\ state.booked[d] = BytesOf(Reservations(d))
                          /\ state.held[d] = BytesOf(Charges(d))
    /\ state.reserved = state.booked["LuaHeap"] + state.booked["Host"]
    /\ state.committed = state.held["LuaHeap"] + state.held["Host"]

\* Even a caller that lets charges go during a normalization never makes the
\* ledger believe in less than is allocated; so no refund underflows and the
\* ledger is never poisoned.
NeverUndercounts ==
    /\ ~state.poisoned
    /\ \A d \in Domains : /\ state.booked[d] = BytesOf(Reservations(d))
                          /\ state.held[d] >= BytesOf(Charges(d))
    /\ state.reserved = state.booked["LuaHeap"] + state.booked["Host"]
    /\ state.committed = state.held["LuaHeap"] + state.held["Host"]

\* The host has exactly the tokens that tickets hold, each with the size it was
\* admitted for: every token is released once, with that size.
TokensBalanced ==
    out = {<<i, tickets[i].bytes>> : i \in {j \in Tickets : tickets[j].token}}

\* The peaks cover what is outstanding, also across the write-back of a
\* normalization.
PeaksCover ==
    /\ state.committed <= state.peaks.committed
    /\ state.committed + state.reserved <= state.peaks.outstanding
    /\ \A d \in Domains : state.held[d] <= state.peaks.held[d]

\* A step never pushes what is outstanding over the quota: it can be above only
\* because set_limit lowered the quota.
LimitRespected ==
    [][state'.committed + state'.reserved > state.committed + state.reserved
         => state'.committed + state'.reserved <= state.limit]_vars

=============================================================================
