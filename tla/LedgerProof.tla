---------------------------- MODULE LedgerProof ----------------------------
(***************************************************************************)
(* Two things are proved, whatever the tickets, groups, sizes and quotas.  *)
(* Every token of the host's allocator is held by exactly one ticket and   *)
(* released once, with the size it was admitted for.  And the balances of  *)
(* the ledger are what the tickets add up to, or more where a frame rolls  *)
(* back, below their peaks and within the quota.                           *)
(***************************************************************************)
EXTENDS Ledger, TLAPS, WellFoundedInduction, FiniteSetTheorems

Ats == {None, "reservation", "charge", "detached", "pending"} \cup Parts \cup Groups
Tables == [Tickets -> [at : Ats, bytes : Nat, dom : Domains, token : BOOLEAN]]

\* Tickets are well formed; only tickets that are allocated, with a host
\* allocator, hold tokens; the charge under preparation is a ticket apart.
TicketsOK ==
    /\ tickets \in Tables
    /\ \A i \in Tickets : tickets[i].token => External /\ tickets[i].at \notin {None, "detached"}
    /\ \A p \in prepared : /\ p.id \in Tickets /\ tickets[p.id].at = "pending"
                           /\ p.group \in Groups

TokenInv == TicketsOK /\ TokensBalanced

-----------------------------------------------------------------------------
(* The host's books.                                                       *)

LEMMA FreeOK == Free \in [at : Ats, bytes : Nat, dom : Domains, token : BOOLEAN] /\ ~Free.token
  BY DEF Free, Ats, Domains

\* Tickets that give up their tokens release them.
LEMMA Releasing ==
    ASSUME TicketsOK, TokensBalanced, NEW S \in SUBSET Tickets, Release(S),
           \A j \in S : ~tickets'[j].token,
           \A j \in Tickets \ S : /\ tickets'[j].token = tickets[j].token
                                  /\ tickets'[j].bytes = tickets[j].bytes
    PROVE  TokensBalanced'
  <1>1. out = {<<i, tickets[i].bytes>> : i \in {j \in Tickets : tickets[j].token}}
    BY DEF TokensBalanced
  <1>2. out' = out \ {<<i, tickets[i].bytes>> : i \in {j \in S : tickets[j].token}}
    BY DEF Release
  <1>3. {j \in Tickets : tickets'[j].token} = {j \in Tickets : tickets[j].token} \ S
    OBVIOUS
  <1>4. ASSUME NEW x PROVE x \in out' <=>
            \E i \in {j \in Tickets : tickets'[j].token} : x = <<i, tickets'[i].bytes>>
    <2>1. ASSUME x \in out'
          PROVE  \E i \in {j \in Tickets : tickets'[j].token} : x = <<i, tickets'[i].bytes>>
      <3>1. PICK i \in {j \in Tickets : tickets[j].token} : x = <<i, tickets[i].bytes>>
        BY <1>1, <1>2, <2>1
      <3>2. i \notin S
        BY <1>2, <2>1, <3>1
      <3> QED
        BY <3>1, <3>2
    <2>2. ASSUME NEW i \in Tickets, tickets'[i].token, x = <<i, tickets'[i].bytes>>
          PROVE  x \in out'
      <3>1. i \notin S /\ tickets[i].token /\ x = <<i, tickets[i].bytes>>
        BY <2>2
      <3>2. x \in out
        BY <1>1, <3>1
      <3>3. x \notin {<<k, tickets[k].bytes>> : k \in {j \in S : tickets[j].token}}
        BY <3>1
      <3> QED
        BY <1>2, <3>2, <3>3
    <2> QED
      BY <2>1, <2>2
  <1> QED
    BY <1>4 DEF TokensBalanced

\* A ticket that had no token gets one if the host is asked.
LEMMA Admitting ==
    ASSUME TicketsOK, TokensBalanced, NEW i \in Tickets, NEW b, ~tickets[i].token, Admit(i, b),
           tickets'[i].bytes = b, tickets'[i].token = (External /\ b > 0),
           \A j \in Tickets \ {i} : /\ tickets'[j].token = tickets[j].token
                                    /\ tickets'[j].bytes = tickets[j].bytes
    PROVE  TokensBalanced'
  <1>1. out = {<<j, tickets[j].bytes>> : j \in {k \in Tickets : tickets[k].token}}
    BY DEF TokensBalanced
  <1>2. CASE External /\ b > 0
    <2>1. out' = out \cup {<<i, b>>} /\ tickets'[i].token
      BY <1>2, Zenon DEF Admit
    <2>2. ASSUME NEW x PROVE x \in out' <=>
              \E j \in {k \in Tickets : tickets'[k].token} : x = <<j, tickets'[j].bytes>>
      BY <1>1, <2>1
    <2> QED
      BY <2>2 DEF TokensBalanced
  <1>3. CASE ~(External /\ b > 0)
    <2>1. out' = out /\ ~tickets'[i].token
      BY <1>3, Zenon DEF Admit
    <2>2. ASSUME NEW x PROVE x \in out' <=>
              \E j \in {k \in Tickets : tickets'[k].token} : x = <<j, tickets'[j].bytes>>
      BY <1>1, <2>1
    <2> QED
      BY <2>2 DEF TokensBalanced
  <1> QED
    BY <1>2, <1>3

\* Nothing is admitted or released, and no token or size changes.
LEMMA Keeping ==
    ASSUME TokensBalanced, out' = out,
           \A j \in Tickets : tickets'[j].token = tickets[j].token,
           \A j \in Tickets : tickets[j].token => tickets'[j].bytes = tickets[j].bytes
    PROVE  TokensBalanced'
  <1>1. {j \in Tickets : tickets'[j].token} = {j \in Tickets : tickets[j].token}
    OBVIOUS
  <1>2. \A j \in {k \in Tickets : tickets[k].token} : <<j, tickets'[j].bytes>> = <<j, tickets[j].bytes>>
    OBVIOUS
  <1> QED
    BY <1>1, <1>2 DEF TokensBalanced

-----------------------------------------------------------------------------
(* Tickets that are dropped together.                                      *)

LEMMA Dropping ==
    ASSUME TokenInv, NEW S \in SUBSET Tickets, Release(S),
           tickets' = [j \in Tickets |-> IF j \in S THEN Free ELSE tickets[j]],
           \A p \in prepared' : p \in prepared /\ p.id \notin S
    PROVE  TokenInv'
  <1>1. TicketsOK /\ TokensBalanced
    BY DEF TokenInv
  <1>2. \A j \in S : ~tickets'[j].token
    BY FreeOK
  <1>3. \A j \in Tickets \ S : tickets'[j] = tickets[j]
    OBVIOUS
  <1>4. TokensBalanced'
    BY <1>1, <1>2, <1>3, Releasing
  <1>5. tickets' \in Tables
    BY <1>1, FreeOK DEF TicketsOK, Tables
  <1>6. TicketsOK'
    BY <1>1, <1>2, <1>3, <1>5, Zenon DEF TicketsOK, Tables
  <1> QED
    BY <1>4, <1>6 DEF TokenInv

LEMMA DroppingOne ==
    ASSUME TokenInv, NEW i \in Tickets, tickets' = [tickets EXCEPT ![i] = Free]
    PROVE  tickets' = [j \in Tickets |-> IF j \in {i} THEN Free ELSE tickets[j]]
  BY Zenon DEF TokenInv, TicketsOK, Tables

-----------------------------------------------------------------------------
(* What each action does to the tokens.                                    *)

\* No ticket is touched: attempts that fail, checkpoints, configuration.
LEMMA Untouched == ASSUME TokenInv, UNCHANGED <<tickets, out, prepared>> PROVE TokenInv'
  BY DEF TokenInv, TicketsOK, Tables, TokensBalanced

LEMMA ReserveToken ==
    ASSUME TokenInv, NEW i \in Tickets, NEW b \in Sizes, NEW d \in Domains,
           NEW p \in Points \cup {None},
           Reserve(i, b, d, p)
    PROVE  TokenInv'
  <1>1. /\ tickets[i].at = None /\ Admit(i, b) /\ prepared' = prepared /\ Ready
        /\ tickets' = [tickets EXCEPT ![i] = [at |-> "reservation", bytes |-> b, dom |-> d,
                                              token |-> External /\ b > 0]]
    BY DEF Reserve, MayAttempt
  <1>2. TicketsOK /\ TokensBalanced /\ ~tickets[i].token /\ b \in Nat /\ (External /\ b > 0) \in BOOLEAN
    BY <1>1, LedgerAssumption DEF TokenInv, TicketsOK, Tables
  <1>3. /\ tickets'[i] = [at |-> "reservation", bytes |-> b, dom |-> d, token |-> External /\ b > 0]
        /\ \A j \in Tickets \ {i} : tickets'[j] = tickets[j]
    BY <1>1, <1>2 DEF TicketsOK, Tables
  <1>4. TokensBalanced'
    BY <1>1, <1>2, <1>3, Admitting
  <1>5. tickets' \in Tables
    BY <1>1, <1>2 DEF TicketsOK, Tables, Ats
  <1>6. TicketsOK'
    BY <1>1, <1>2, <1>3, <1>5 DEF TicketsOK, Tables, Ready, None
  <1> QED
    BY <1>4, <1>6 DEF TokenInv

LEMMA CommitToken ==
    ASSUME TokenInv, NEW i \in Tickets, NEW to \in {"charge", "detached"}, CommitCharge(i, to)
    PROVE  TokenInv'
  <1>1. /\ Ready /\ out' = out /\ prepared' = prepared /\ (to = "detached" => ~External)
        /\ tickets' = [tickets EXCEPT ![i].at = to, ![i].token = @ /\ to = "charge"]
    BY DEF CommitCharge
  <1>2. TicketsOK /\ TokensBalanced
    BY DEF TokenInv
  <1>3. /\ tickets'[i] = [tickets[i] EXCEPT !.at = to, !.token = @ /\ to = "charge"]
        /\ \A j \in Tickets \ {i} : tickets'[j] = tickets[j]
    BY <1>1, <1>2 DEF TicketsOK, Tables
  <1>4. tickets'[i].token = tickets[i].token /\ tickets'[i].bytes = tickets[i].bytes /\ tickets'[i].at = to
    BY <1>1, <1>2, <1>3 DEF TicketsOK, Tables
  <1>5. TokensBalanced'
    BY <1>1, <1>2, <1>3, <1>4, Keeping, Zenon
  <1>6. tickets' \in Tables
    BY <1>1, <1>2, ZenonT(40) DEF TicketsOK, Tables, Ats
  <1>7. TicketsOK'
    BY <1>1, <1>2, <1>3, <1>4, <1>6 DEF TicketsOK, Tables, Ready, None
  <1> QED
    BY <1>5, <1>7 DEF TokenInv

\* One ticket is dropped for good.
LEMMA DropToken ==
    ASSUME TokenInv, NEW i \in Tickets,
           DropReservation(i) \/ DropCharge(i) \/ ReclaimUpvalue(i) \/ RefundDetached(i)
    PROVE  TokenInv'
  <1>1. tickets' = [tickets EXCEPT ![i] = Free] /\ prepared' = prepared
    BY DEF DropReservation, DropCharge, ReclaimUpvalue, RefundDetached
  <1>2. tickets' = [j \in Tickets |-> IF j \in {i} THEN Free ELSE tickets[j]]
    BY <1>1, DroppingOne, Zenon
  <1>3. \A p \in prepared : p.id # i
    BY DEF TokenInv, TicketsOK, Tables, DropReservation, DropCharge, ReclaimUpvalue, RefundDetached
  <1>4. Release({i})
    <2>1. CASE RefundDetached(i)
      <3>1. out' = out /\ ~tickets[i].token
        BY <2>1 DEF RefundDetached, TokenInv, TicketsOK, Tables
      <3>2. {<<k, tickets[k].bytes>> : k \in {j \in {i} : tickets[j].token}} = {}
        BY <3>1
      <3> QED
        BY <3>1, <3>2 DEF Release
    <2> QED
      BY <2>1 DEF DropReservation, DropCharge, ReclaimUpvalue, DropAll
  <1> QED
    BY <1>1, <1>2, <1>3, <1>4, Dropping, Zenon

\* A part of a PairedLuaCharges is replaced: the charge keeps its token.
LEMMA ReplaceToken ==
    ASSUME TokenInv, NEW i \in Tickets, NEW p \in Parts, ReplacePart(i, p)
    PROVE  TokenInv'
  <1>1. /\ tickets[i].at = "charge" /\ Release(Owned({p})) /\ prepared' = prepared /\ Ready
        /\ tickets' = [j \in Tickets |-> IF j = i THEN [tickets[i] EXCEPT !.at = p]
                                         ELSE IF j \in Owned({p}) THEN Free ELSE tickets[j]]
    BY DEF ReplacePart, DropAll
  <1>2. TicketsOK /\ TokensBalanced /\ Owned({p}) \in SUBSET Tickets /\ i \notin Owned({p})
    BY <1>1 DEF TokenInv, Owned, Parts
  <1>3. /\ tickets'[i].at = p /\ tickets'[i].token = tickets[i].token
        /\ tickets'[i].bytes = tickets[i].bytes
    BY <1>1, <1>2 DEF TicketsOK, Tables
  <1>4. \A j \in Owned({p}) : ~tickets'[j].token
    BY <1>1, <1>2, FreeOK, Zenon
  <1>5. \A j \in Tickets \ (Owned({p}) \cup {i}) : tickets'[j] = tickets[j]
    BY <1>1
  <1>6. TokensBalanced'
    BY <1>1, <1>2, <1>3, <1>4, <1>5, Releasing
  <1>7. tickets' \in Tables
    BY <1>1, <1>2, FreeOK DEF TicketsOK, Tables, Ats
  <1>8. ASSUME NEW j \in Tickets, tickets'[j].token
        PROVE  External /\ tickets'[j].at \notin {None, "detached"}
    BY <1>1, <1>2, <1>3, <1>4, <1>5, <1>8, Zenon DEF TicketsOK, Tables, Parts, None
  <1>9. TicketsOK'
    BY <1>1, <1>7, <1>8, Zenon DEF TicketsOK, Tables, Ready
  <1> QED
    BY <1>6, <1>9 DEF TokenInv

\* A charge, or a whole group, changes owner.
LEMMA MoveToken ==
    ASSUME TokenInv, out' = out, prepared' = prepared, Ready, NEW g \in Groups, NEW S \in SUBSET Tickets,
           tickets' = [j \in Tickets |-> IF j \in S THEN [tickets[j] EXCEPT !.at = g] ELSE tickets[j]]
    PROVE  TokenInv'
  <1>1. TicketsOK /\ TokensBalanced
    BY DEF TokenInv
  <1>2. \A j \in Tickets : tickets'[j].token = tickets[j].token /\ tickets'[j].bytes = tickets[j].bytes
    BY <1>1 DEF TicketsOK, Tables
  <1>3. \A j \in Tickets : tickets'[j].at \in {g, tickets[j].at}
    BY <1>1 DEF TicketsOK, Tables
  <1>4. TokensBalanced'
    BY <1>1, <1>2, Keeping
  <1>5. tickets' \in Tables
    BY <1>1 DEF TicketsOK, Tables, Ats
  <1>6. g \notin {None, "detached"}
    BY LedgerAssumption
  <1>7. TicketsOK'
    BY <1>1, <1>2, <1>3, <1>5, <1>6 DEF TicketsOK, Tables, Ready
  <1> QED
    BY <1>4, <1>7 DEF TokenInv

LEMMA PrepareToken ==
    ASSUME TokenInv, NEW i \in Tickets, NEW g \in Groups, NEW actual \in Sizes,
           PrepareNormalize(g, actual, i)
    PROVE  TokenInv'
  <1>1. PICK e \in Owned({g}) :
           /\ prepared' = {[group |-> g, id |-> i, dom |-> tickets[e].dom,
                            excess |-> BytesOf(Owned({g})) - actual, before |-> state]}
           /\ tickets' = [tickets EXCEPT ![i] = [at |-> "pending", bytes |-> actual,
                                                 dom |-> tickets[e].dom, token |-> External]]
    BY Zenon DEF PrepareNormalize
  <1>2. tickets[i].at = None /\ actual > 0 /\ Admit(i, actual) /\ actual \in Nat
    BY LedgerAssumption DEF PrepareNormalize
  <1>3. /\ TicketsOK /\ TokensBalanced /\ ~tickets[i].token /\ External \in BOOLEAN
        /\ tickets[e].dom \in Domains
    BY <1>2, LedgerAssumption DEF TokenInv, TicketsOK, Tables, Owned
  <1>4. /\ tickets'[i] = [at |-> "pending", bytes |-> actual, dom |-> tickets[e].dom, token |-> External]
        /\ \A j \in Tickets \ {i} : tickets'[j] = tickets[j]
    BY <1>1, <1>3 DEF TicketsOK, Tables
  <1>5. tickets'[i].token = (External /\ actual > 0)
    BY <1>2, <1>3, <1>4
  <1>6. TokensBalanced'
    BY <1>2, <1>3, <1>4, <1>5, Admitting
  <1>7. tickets' \in Tables
    BY <1>1, <1>2, <1>3 DEF TicketsOK, Tables, Ats
  <1>8. TicketsOK'
    BY <1>1, <1>3, <1>4, <1>7 DEF TicketsOK, Tables, None
  <1> QED
    BY <1>6, <1>8 DEF TokenInv

LEMMA NormalizeToken == ASSUME TokenInv, CommitNormalize PROVE TokenInv'
  <1>1. PICK p \in prepared :
           /\ Release(Owned({p.group}))
           /\ tickets' = [j \in Tickets |->
                            IF j = p.id THEN [tickets[j] EXCEPT !.at = p.group]
                            ELSE IF j \in Owned({p.group}) THEN Free ELSE tickets[j]]
    BY Zenon DEF CommitNormalize
  <1>2. TicketsOK /\ TokensBalanced /\ prepared' = {}
    BY DEF TokenInv, CommitNormalize
  <1>3. p.id \in Tickets /\ tickets[p.id].at = "pending" /\ p.group \in Groups
    BY <1>1, <1>2 DEF TicketsOK, Tables
  <1>4. Owned({p.group}) \in SUBSET Tickets /\ p.id \notin Owned({p.group})
        /\ p.group \notin {None, "detached"}
    BY <1>3, LedgerAssumption DEF Owned
  <1>5. /\ tickets'[p.id].at = p.group /\ tickets'[p.id].token = tickets[p.id].token
        /\ tickets'[p.id].bytes = tickets[p.id].bytes
    BY <1>1, <1>2, <1>3 DEF TicketsOK, Tables
  <1>6. \A j \in Owned({p.group}) : ~tickets'[j].token
    BY <1>1, <1>4, FreeOK
  <1>7. \A j \in Tickets \ (Owned({p.group}) \cup {p.id}) : tickets'[j] = tickets[j]
    BY <1>1
  <1>8. TokensBalanced'
    BY <1>1, <1>2, <1>4, <1>5, <1>6, <1>7, Releasing, Zenon
  <1>9. tickets' \in Tables
    BY <1>1, <1>2, <1>3, FreeOK DEF TicketsOK, Tables, Ats
  <1>10. ASSUME NEW j \in Tickets, tickets'[j].token
         PROVE  External /\ tickets'[j].at \notin {None, "detached"}
    BY <1>2, <1>4, <1>5, <1>6, <1>7, <1>10, Zenon DEF TicketsOK, Tables
  <1>11. TicketsOK'
    BY <1>2, <1>9, <1>10 DEF TicketsOK, Tables
  <1> QED
    BY <1>8, <1>11 DEF TokenInv

LEMMA AbandonToken == ASSUME TokenInv, AbandonNormalize PROVE TokenInv'
  <1>1. PICK p \in prepared : Release({p.id}) /\ tickets' = [tickets EXCEPT ![p.id] = Free]
    BY Zenon DEF AbandonNormalize
  <1>2. p.id \in Tickets /\ prepared' = {}
    BY <1>1 DEF TokenInv, TicketsOK, Tables, AbandonNormalize
  <1>3. tickets' = [j \in Tickets |-> IF j \in {p.id} THEN Free ELSE tickets[j]]
    BY <1>1, <1>2, DroppingOne, Zenon
  <1> QED
    BY <1>1, <1>2, <1>3, Dropping, Zenon

-----------------------------------------------------------------------------
(* Tokens: the invariant is inductive.                                     *)

LEMMA TokenInit == Init => TokenInv
  <1> SUFFICES ASSUME Init PROVE TokenInv
    OBVIOUS
  <1>1. tickets = [i \in Tickets |-> Free] /\ out = {} /\ prepared = {}
    BY DEF Init
  <1>2. TicketsOK
    BY <1>1, FreeOK DEF TicketsOK, Tables
  <1>3. {j \in Tickets : tickets[j].token} = {}
    BY <1>1, FreeOK
  <1>4. TokensBalanced
    BY <1>1, <1>3 DEF TokensBalanced
  <1> QED
    BY <1>2, <1>4 DEF TokenInv

LEMMA TokenOneTicket == ASSUME TokenInv, NEW i \in Tickets, OneTicket(i) PROVE TokenInv'
  <1>1. CASE \E b \in Sizes, d \in Domains, p \in Points \cup {None} : Reserve(i, b, d, p)
    BY <1>1, ReserveToken
  <1>2. CASE DropReservation(i) \/ DropCharge(i) \/ ReclaimUpvalue(i) \/ RefundDetached(i)
    BY <1>2, DropToken
  <1>3. CASE \E to \in {"charge", "detached"} : CommitCharge(i, to)
    BY <1>3, CommitToken
  <1>4. CASE \E p \in Parts : ReplacePart(i, p)
    BY <1>4, ReplaceToken
  <1>5. ASSUME NEW g \in Groups, TryPush(i, g) PROVE TokenInv'
    <2>1. Ready /\ out' = out /\ prepared' = prepared /\ tickets' = [tickets EXCEPT ![i].at = g]
      BY <1>5 DEF TryPush
    <2>2. tickets' = [j \in Tickets |-> IF j \in {i} THEN [tickets[j] EXCEPT !.at = g] ELSE tickets[j]]
      BY <2>1, Zenon DEF TokenInv, TicketsOK, Tables
    <2> QED
      BY <2>1, <2>2, MoveToken, Zenon
  <1>6. CASE \E g \in Groups, actual \in Sizes : PrepareNormalize(g, actual, i)
    BY <1>6, PrepareToken
  <1> QED
    BY <1>1, <1>2, <1>3, <1>4, <1>5, <1>6 DEF OneTicket

LEMMA TokenStep == TokenInv /\ [Next]_vars => TokenInv'
  <1> SUFFICES ASSUME TokenInv, [Next]_vars PROVE TokenInv'
    OBVIOUS
  <1>1. CASE UNCHANGED <<tickets, out, prepared>>
    BY <1>1, Untouched
  <1>2. CASE \E i \in Tickets : OneTicket(i)
    BY <1>2, TokenOneTicket
  <1>3. ASSUME NEW P \in {{"second"}, Parts}, ReleaseParts(P) PROVE TokenInv'
    <2>1. /\ Ready /\ Release(Owned(P)) /\ prepared' = prepared
          /\ tickets' = [j \in Tickets |-> IF j \in Owned(P) THEN Free ELSE tickets[j]]
      BY <1>3 DEF ReleaseParts, DropAll
    <2> QED
      BY <2>1, Dropping DEF Owned, Ready
  <1>4. ASSUME NEW g \in Groups, NEW h \in Groups, TryAbsorb(g, h) PROVE TokenInv'
    BY <1>4, MoveToken, Zenon DEF TryAbsorb, Owned
  <1>5. ASSUME NEW g \in Groups, ClearCharges(g) PROVE TokenInv'
    <2>1. /\ Ready /\ Release(Owned({g})) /\ prepared' = prepared
          /\ tickets' = [j \in Tickets |-> IF j \in Owned({g}) THEN Free ELSE tickets[j]]
      BY <1>5 DEF ClearCharges, DropAll
    <2> QED
      BY <2>1, Dropping DEF Owned, Ready
  <1>6. CASE CommitNormalize \/ AbandonNormalize
    BY <1>6, NormalizeToken, AbandonToken
  <1> QED
    BY <1>1, <1>2, <1>3, <1>4, <1>5, <1>6
    DEF Next, vars, ReserveFails, ReserveVecFails, Checkpoint, Configure

\* Every token the host's allocator gave out is held by the ticket it was given
\* for, with its size: none leaks, and none is released twice.
THEOREM TokensAreBalanced == Spec => []TokensBalanced
  <1>1. TokenInv => TokensBalanced
    BY DEF TokenInv
  <1> QED
    BY <1>1, TokenInit, TokenStep, PTL DEF Spec

-----------------------------------------------------------------------------
(* Sums.                                                                   *)

\* A set of naturals that has every number whose predecessors it has.
LEMMA StrongInduction ==
    ASSUME NEW T, T \subseteq Nat,
           \A n \in Nat : (\A m \in Nat : m < n => m \in T) => n \in T
    PROVE  \A n \in Nat : n \in T
  <1> SUFFICES ASSUME NEW k \in Nat \ T PROVE FALSE
    OBVIOUS
  <1>1. PICK x \in Nat \ T : \A y \in Nat \ T : ~(<<y, x>> \in OpToRel(<, Nat))
    BY NatLessThanWellFounded, WFMin
  <1>2. \A y \in Nat \ T : ~(y < x)
    BY <1>1, Zenon DEF OpToRel
  <1> QED
    BY <1>2

\* BytesOf, of the tickets t.
BytesIn(t, S) == MapThenSumSet(LAMBDA i : t[i].bytes, S)

Pick(s) == CHOOSE x \in s : TRUE
IsSum(t, S, it) ==
    it = [s \in SUBSET S |-> IF s = {} THEN 0 ELSE t[Pick(s)].bytes + it[s \ {Pick(s)}]]

LEMMA PickIn == \A s : s # {} => Pick(s) \in s
  BY DEF Pick

LEMMA BytesAreSum == \A t, S : BytesIn(t, S) = (CHOOSE it : IsSum(t, S, it))[S]
  BY DEF BytesIn, MapThenSumSet, MapThenFoldSet, IsSum, Pick

LEMMA BytesOfIn == \A S : BytesOf(S) = BytesIn(tickets, S)
  BY DEF BytesOf, BytesIn

\* There is such a function for every finite set.
LEMMA SumExists ==
    ASSUME NEW t, NEW S, IsFiniteSet(S)
    PROVE  \E it : IsSum(t, S, it)
  <1> DEFINE D(n) == {s \in SUBSET S : Cardinality(s) <= n}
             Good(n, it) == it = [s \in D(n) |-> IF s = {} THEN 0
                                                 ELSE t[Pick(s)].bytes + it[s \ {Pick(s)}]]
             T == {n \in Nat : \E it : Good(n, it)}
  <1>0. \A s \in SUBSET S : /\ IsFiniteSet(s) /\ Cardinality(s) \in Nat
                            /\ Cardinality(s) <= Cardinality(S)
                            /\ s # {} => /\ Pick(s) \in s /\ s \ {Pick(s)} \in SUBSET S
                                         /\ Cardinality(s \ {Pick(s)}) = Cardinality(s) - 1
                                         /\ Cardinality(s) # 0
    BY FS_Subset, FS_CardinalityType, FS_RemoveElement, FS_EmptySet, PickIn
  <1>1. ASSUME NEW n \in Nat, \A m \in Nat : m < n => m \in T
        PROVE  n \in T
    <2>1. CASE n = 0
      <3>1. \A s \in D(0) : s = {}
        <4> SUFFICES ASSUME NEW s \in SUBSET S, Cardinality(s) <= 0 PROVE s = {}
          OBVIOUS
        <4>1. Cardinality(s) \in Nat /\ (s # {} => Cardinality(s) # 0)
          BY <1>0, Zenon
        <4> QED
          BY <4>1
      <3>2. Good(0, [s \in D(0) |-> 0])
        BY <3>1
      <3> QED
        BY <2>1, <3>2, Zenon
    <2>2. CASE n # 0
      <3>1. n - 1 \in Nat /\ n - 1 < n
        BY <2>2
      <3>2. PICK a : Good(n - 1, a)
        BY <1>1, <3>1, Zenon
      <3> DEFINE b == [s \in D(n) |-> IF s = {} THEN 0 ELSE t[Pick(s)].bytes + a[s \ {Pick(s)}]]
      <3>3. \A s \in D(n) : s # {} => s \ {Pick(s)} \in D(n - 1)
        BY <1>0, <3>1
      <3>4. \A s \in D(n - 1) : s \in D(n)
        <4> SUFFICES ASSUME NEW s \in SUBSET S, Cardinality(s) <= n - 1 PROVE Cardinality(s) <= n
          OBVIOUS
        <4>1. Cardinality(s) \in Nat
          BY <1>0, Zenon
        <4> QED
          BY <4>1
      <3>5. \A s \in D(n - 1) : b[s] = a[s]
        <4> SUFFICES ASSUME NEW s \in D(n - 1) PROVE b[s] = a[s]
          BY Zenon
        <4>1. b[s] = IF s = {} THEN 0 ELSE t[Pick(s)].bytes + a[s \ {Pick(s)}]
          BY <3>4
        <4>2. a[s] = IF s = {} THEN 0 ELSE t[Pick(s)].bytes + a[s \ {Pick(s)}]
          BY <3>2, Zenon
        <4> QED
          BY <4>1, <4>2
      <3>6. Good(n, b)
        BY <3>3, <3>5, Zenon
      <3> QED
        BY <3>6, Zenon
    <2> QED
      BY <2>1, <2>2, Zenon
  <1>2. Cardinality(S) \in T
    <2>1. Cardinality(S) \in Nat /\ T \subseteq Nat
      BY FS_CardinalityType
    <2> HIDE DEF T
    <2>2. \A n \in Nat : n \in T
      BY <1>1, <2>1, StrongInduction, Zenon
    <2> QED
      BY <2>1, <2>2
  <1>3. D(Cardinality(S)) = SUBSET S
    BY <1>0, Zenon
  <1>4. PICK it : Good(Cardinality(S), it)
    BY <1>2, Zenon
  <1>5. IsSum(t, S, it)
    BY <1>3, <1>4, Zenon DEF IsSum
  <1> QED
    BY <1>5

\* Two such functions agree where both are defined.
LEMMA SumUnique ==
    ASSUME NEW t, NEW S, NEW T, IsFiniteSet(S), NEW a, NEW b, IsSum(t, S, a), IsSum(t, T, b),
           NEW u \in SUBSET S, u \in SUBSET T
    PROVE  a[u] = b[u]
  <1> DEFINE N == {n \in Nat : \A s \in SUBSET S : s \subseteq T /\ Cardinality(s) = n => a[s] = b[s]}
  <1>0. \A s \in SUBSET S : /\ IsFiniteSet(s) /\ Cardinality(s) \in Nat
                            /\ s # {} => /\ Pick(s) \in s
                                         /\ Cardinality(s \ {Pick(s)}) = Cardinality(s) - 1
                                         /\ Cardinality(s \ {Pick(s)}) \in Nat
    BY FS_Subset, FS_CardinalityType, FS_RemoveElement, PickIn
  <1>1. ASSUME NEW n \in Nat, \A m \in Nat : m < n => m \in N
        PROVE  n \in N
    <2> SUFFICES ASSUME NEW s \in SUBSET S, s \subseteq T, Cardinality(s) = n
                 PROVE  a[s] = b[s]
      OBVIOUS
    <2>1. a[s] = IF s = {} THEN 0 ELSE t[Pick(s)].bytes + a[s \ {Pick(s)}]
      BY Zenon DEF IsSum
    <2>2. b[s] = IF s = {} THEN 0 ELSE t[Pick(s)].bytes + b[s \ {Pick(s)}]
      BY Zenon DEF IsSum
    <2>3. CASE s = {}
      BY <2>1, <2>2, <2>3
    <2>4. CASE s # {}
      <3>0. /\ Cardinality(s \ {Pick(s)}) = Cardinality(s) - 1
            /\ Cardinality(s \ {Pick(s)}) \in Nat
        BY <1>0, <2>4
      <3>1. n - 1 \in Nat /\ n - 1 < n /\ Cardinality(s \ {Pick(s)}) = n - 1
        BY <3>0
      <3>2. a[s \ {Pick(s)}] = b[s \ {Pick(s)}]
        BY <1>1, <3>1
      <3> QED
        BY <2>1, <2>2, <3>2
    <2> QED
      BY <2>3, <2>4
  <1>2. N \subseteq Nat
    OBVIOUS
  <1>3. \A n \in Nat : n \in N
    <2> HIDE DEF N
    <2> QED
      BY <1>1, <1>2, StrongInduction, Zenon
  <1> QED
    BY <1>0, <1>3, Zenon

LEMMA SumIs ==
    ASSUME NEW t, NEW S, IsFiniteSet(S), NEW a, IsSum(t, S, a), NEW u \in SUBSET S
    PROVE  BytesIn(t, u) = a[u]
  <1>1. IsFiniteSet(u)
    BY FS_Subset
  <1>2. \E it : IsSum(t, u, it)
    BY <1>1, SumExists
  <1> DEFINE b == CHOOSE it : IsSum(t, u, it)
  <1>3. IsSum(t, u, b)
    BY <1>2
  <1> HIDE DEF b
  <1>4. a[u] = b[u]
    BY <1>3, SumUnique
  <1>5. BytesIn(t, u) = b[u]
    BY BytesAreSum DEF b
  <1> QED
    BY <1>4, <1>5

LEMMA BytesPicked ==
    ASSUME NEW t, NEW S, IsFiniteSet(S)
    PROVE  /\ S = {} => BytesIn(t, S) = 0
           /\ S # {} => BytesIn(t, S) = t[Pick(S)].bytes + BytesIn(t, S \ {Pick(S)})
  <1>1. PICK a : IsSum(t, S, a)
    BY SumExists
  <1>2. a[S] = IF S = {} THEN 0 ELSE t[Pick(S)].bytes + a[S \ {Pick(S)}]
    BY <1>1, Zenon DEF IsSum
  <1>3. BytesIn(t, S) = a[S] /\ BytesIn(t, S \ {Pick(S)}) = a[S \ {Pick(S)}]
    BY <1>1, SumIs
  <1> QED
    BY <1>2, <1>3

\* Any member may be taken out first.
LEMMA BytesRemove ==
    ASSUME NEW t, NEW S, IsFiniteSet(S), \A i \in S : t[i].bytes \in Nat
    PROVE  /\ BytesIn(t, S) \in Nat
           /\ \A x \in S : BytesIn(t, S) = t[x].bytes + BytesIn(t, S \ {x})
  <1> DEFINE P(s) == /\ BytesIn(t, s) \in Nat
                     /\ \A x \in s : BytesIn(t, s) = t[x].bytes + BytesIn(t, s \ {x})
             N == {n \in Nat : \A s \in SUBSET S : Cardinality(s) = n => P(s)}
  <1>0. \A s \in SUBSET S : /\ IsFiniteSet(s) /\ Cardinality(s) \in Nat
                            /\ \A x \in s : /\ Cardinality(s \ {x}) = Cardinality(s) - 1
                                            /\ Cardinality(s \ {x}) \in Nat
    BY FS_Subset, FS_CardinalityType, FS_RemoveElement
  <1>1. ASSUME NEW n \in Nat, \A m \in Nat : m < n => m \in N
        PROVE  n \in N
    <2> SUFFICES ASSUME NEW s \in SUBSET S, Cardinality(s) = n
                 PROVE  P(s)
      OBVIOUS
    <2>0. IsFiniteSet(s)
      BY <1>0
    <2>1. CASE s = {}
      <3>1. BytesIn(t, s) = 0
        BY <2>0, <2>1, BytesPicked, Zenon
      <3> QED
        BY <2>1, <3>1
    <2>2. CASE s # {}
      <3>1. ASSUME NEW x \in s
            PROVE  P(s \ {x})
        <4>1. Cardinality(s \ {x}) = Cardinality(s) - 1 /\ Cardinality(s \ {x}) \in Nat
          BY <1>0
        <4>2. n - 1 \in Nat /\ n - 1 < n /\ Cardinality(s \ {x}) = n - 1
          BY <4>1
        <4>3. s \ {x} \in SUBSET S /\ n - 1 \in N
          BY <1>1, <4>2
        <4> HIDE DEF P
        <4> QED
          BY <4>2, <4>3
      <3>2. PICK y \in s : BytesIn(t, s) = t[y].bytes + BytesIn(t, s \ {y})
        BY <2>0, <2>2, BytesPicked, PickIn, Zenon
      <3>3. BytesIn(t, s \ {y}) \in Nat /\ t[y].bytes \in Nat
        BY <3>1
      <3>4. ASSUME NEW x \in s
            PROVE  BytesIn(t, s) = t[x].bytes + BytesIn(t, s \ {x})
        <4>1. CASE x = y
          BY <3>2, <4>1
        <4>2. CASE x # y
          <5>1. (s \ {y}) \ {x} = (s \ {x}) \ {y}
            OBVIOUS
          <5> DEFINE m == BytesIn(t, (s \ {x}) \ {y})
          <5>2. BytesIn(t, s \ {y}) = t[x].bytes + m
            BY <3>1, <4>2, <5>1
          <5>3. BytesIn(t, s \ {x}) = t[y].bytes + m
            BY <3>1, <4>2
          <5>4. m \in Nat
            <6>1. P((s \ {x}) \ {y})
              <7>1. Cardinality((s \ {x}) \ {y}) = Cardinality(s \ {x}) - 1
                    /\ Cardinality((s \ {x}) \ {y}) \in Nat /\ s \ {x} \in SUBSET S
                BY <1>0, <4>2, Zenon
              <7>2. Cardinality(s \ {x}) = Cardinality(s) - 1
                BY <1>0
              <7>3. Cardinality((s \ {x}) \ {y}) < n
                BY <7>1, <7>2
              <7>4. Cardinality((s \ {x}) \ {y}) \in N
                BY <1>1, <7>1, <7>3, Zenon
              <7> HIDE DEF P
              <7> QED
                BY <7>1, <7>4
            <6> QED
              BY <6>1
          <5>5. t[x].bytes \in Nat /\ t[y].bytes \in Nat
            OBVIOUS
          <5> HIDE DEF m
          <5> QED
            BY <3>2, <5>2, <5>3, <5>4, <5>5
        <4> QED
          BY <4>1, <4>2
      <3> QED
        BY <3>2, <3>3, <3>4
    <2> QED
      BY <2>1, <2>2
  <1>2. N \subseteq Nat
    OBVIOUS
  <1>3. \A n \in Nat : n \in N
    <2> HIDE DEF N
    <2> QED
      BY <1>1, <1>2, StrongInduction, Zenon
  <1>4. Cardinality(S) \in N
    BY <1>0, <1>3
  <1> QED
    BY <1>4

\* What is taken away leaves the rest.
LEMMA BytesSplit ==
    ASSUME NEW t, NEW S, IsFiniteSet(S), \A i \in S : t[i].bytes \in Nat, NEW R \in SUBSET S
    PROVE  BytesIn(t, S) = BytesIn(t, S \ R) + BytesIn(t, R)
  <1> DEFINE N == {n \in Nat : \A s \in SUBSET S : Cardinality(s) = n =>
                       BytesIn(t, S) = BytesIn(t, S \ s) + BytesIn(t, s)}
  <1>0. \A s \in SUBSET S : /\ IsFiniteSet(s) /\ Cardinality(s) \in Nat
                            /\ \A x \in s : /\ Cardinality(s \ {x}) = Cardinality(s) - 1
                                            /\ Cardinality(s \ {x}) \in Nat
    BY FS_Subset, FS_CardinalityType, FS_RemoveElement
  <1>1. \A s \in SUBSET S : /\ BytesIn(t, s) \in Nat
                            /\ \A x \in s : BytesIn(t, s) = t[x].bytes + BytesIn(t, s \ {x})
    BY <1>0, BytesRemove
  <1>2. ASSUME NEW n \in Nat, \A m \in Nat : m < n => m \in N
        PROVE  n \in N
    <2> SUFFICES ASSUME NEW s \in SUBSET S, Cardinality(s) = n
                 PROVE  BytesIn(t, S) = BytesIn(t, S \ s) + BytesIn(t, s)
      OBVIOUS
    <2>1. CASE s = {}
      <3>1. BytesIn(t, {}) = 0 /\ S \ {} = S /\ BytesIn(t, S) \in Nat
        BY <1>1, FS_EmptySet, BytesPicked, Zenon
      <3> QED
        BY <2>1, <3>1
    <2>2. CASE s # {}
      <3>1. PICK x \in s : TRUE
        BY <2>2
      <3>2. Cardinality(s \ {x}) = Cardinality(s) - 1 /\ Cardinality(s \ {x}) \in Nat
        BY <1>0
      <3>3. Cardinality(s \ {x}) < n
        BY <3>2
      <3>4. BytesIn(t, S) = BytesIn(t, S \ (s \ {x})) + BytesIn(t, s \ {x})
        BY <1>2, <3>2, <3>3
      <3>5. BytesIn(t, s) = t[x].bytes + BytesIn(t, s \ {x})
        BY <1>1
      <3>6. x \in S \ (s \ {x}) /\ (S \ (s \ {x})) \ {x} = S \ s
        OBVIOUS
      <3>7. BytesIn(t, S \ (s \ {x})) = t[x].bytes + BytesIn(t, S \ s)
        BY <1>1, <3>6
      <3>8. t[x].bytes \in Nat /\ BytesIn(t, S \ s) \in Nat /\ BytesIn(t, s \ {x}) \in Nat
        BY <1>1
      <3> QED
        BY <3>4, <3>5, <3>7, <3>8
    <2> QED
      BY <2>1, <2>2
  <1>3. N \subseteq Nat
    OBVIOUS
  <1>4. \A n \in Nat : n \in N
    <2> HIDE DEF N
    <2> QED
      BY <1>2, <1>3, StrongInduction, Zenon
  <1>5. Cardinality(R) \in N
    BY <1>0, <1>4
  <1> QED
    BY <1>5

LEMMA BytesSame ==
    ASSUME NEW t, NEW u, NEW S, IsFiniteSet(S), \A i \in S : t[i].bytes = u[i].bytes
    PROVE  BytesIn(t, S) = BytesIn(u, S)
  <1>1. PICK a : IsSum(t, S, a)
    BY SumExists
  <1>2. ASSUME NEW s \in SUBSET S
        PROVE  a[s] = IF s = {} THEN 0 ELSE u[Pick(s)].bytes + a[s \ {Pick(s)}]
    <2>1. a[s] = IF s = {} THEN 0 ELSE t[Pick(s)].bytes + a[s \ {Pick(s)}]
      BY <1>1, Zenon DEF IsSum
    <2> QED
      BY <2>1, PickIn
  <1>3. a = [s \in SUBSET S |-> a[s]]
    BY <1>1 DEF IsSum
  <1>4. IsSum(u, S, a)
    BY <1>2, <1>3, Zenon DEF IsSum
  <1> QED
    BY <1>1, <1>4, SumIs

\* R goes and A comes.
Moved(t, u, S, R, A) ==
    /\ BytesIn(t, S) \in Nat /\ BytesIn(t, R) \in Nat /\ BytesIn(u, A) \in Nat
    /\ BytesIn(t, R) <= BytesIn(t, S)
    /\ BytesIn(u, (S \ R) \cup A) = (BytesIn(t, S) - BytesIn(t, R)) + BytesIn(u, A)

LEMMA BytesMoved ==
    ASSUME NEW t, NEW u, NEW T, IsFiniteSet(T), \A i \in T : t[i].bytes \in Nat /\ u[i].bytes \in Nat,
           NEW S \in SUBSET T, NEW R \in SUBSET S, NEW A \in SUBSET T, A \cap (S \ R) = {},
           \A i \in S \ R : u[i].bytes = t[i].bytes
    PROVE  Moved(t, u, S, R, A)
  <1>0. IsFiniteSet(S) /\ IsFiniteSet(R) /\ IsFiniteSet(A) /\ IsFiniteSet(S \ R)
        /\ IsFiniteSet((S \ R) \cup A)
    BY FS_Subset
  <1>1. /\ BytesIn(t, S) \in Nat /\ BytesIn(t, R) \in Nat /\ BytesIn(u, A) \in Nat
        /\ BytesIn(t, S \ R) \in Nat
    BY <1>0, BytesRemove
  <1>2. BytesIn(t, S) = BytesIn(t, S \ R) + BytesIn(t, R)
    BY <1>0, BytesSplit
  <1>3. ((S \ R) \cup A) \ A = S \ R
    OBVIOUS
  <1>4. BytesIn(u, (S \ R) \cup A) = BytesIn(u, S \ R) + BytesIn(u, A)
    BY <1>0, <1>3, BytesSplit
  <1>5. BytesIn(u, S \ R) = BytesIn(t, S \ R)
    BY <1>0, BytesSame
  <1> QED
    BY <1>1, <1>2, <1>4, <1>5 DEF Moved

LEMMA BytesFew ==
    ASSUME NEW t
    PROVE  /\ BytesIn(t, {}) = 0
           /\ \A i : t[i].bytes \in Nat => BytesIn(t, {i}) = t[i].bytes
  <1>1. BytesIn(t, {}) = 0
    BY FS_EmptySet, BytesPicked
  <1>2. ASSUME NEW i, t[i].bytes \in Nat
        PROVE  BytesIn(t, {i}) = t[i].bytes
    <2>1. IsFiniteSet({i}) /\ {i} \ {i} = {}
      BY FS_Singleton
    <2>2. BytesIn(t, {i}) = t[i].bytes + BytesIn(t, {i} \ {i})
      BY <1>2, <2>1, BytesRemove
    <2> QED
      BY <1>1, <1>2, <2>1, <2>2
  <1> QED
    BY <1>1, <1>2

-----------------------------------------------------------------------------
(* Balances.                                                               *)

ChargeAts == {"charge", "detached"} \cup Parts \cup Groups

ReservationsIn(t, d) == {i \in Tickets : t[i].at = "reservation" /\ t[i].dom = d}
ChargesIn(t, d) == {i \in Tickets : t[i].at \in ChargeAts /\ t[i].dom = d}

LedgerStates ==
    [limit : Nat, committed : Nat, reserved : Nat, held : [Domains -> Nat],
     booked : [Domains -> Nat],
     peaks : [committed : Nat, outstanding : Nat, held : [Domains -> Nat]],
     poisoned : BOOLEAN, nextOrdinal : Nat, failOnce : Points \cup {None}, failAt : Nat]

\* The balances of the ledger state s agree with each other.
Balanced(s) ==
    /\ ~s.poisoned
    /\ s.reserved = s.booked["LuaHeap"] + s.booked["Host"]
    /\ s.committed = s.held["LuaHeap"] + s.held["Host"]

\* They are covered by its peaks.
Covered(s) ==
    /\ s.committed <= s.peaks.committed
    /\ s.committed + s.reserved <= s.peaks.outstanding
    /\ \A d \in Domains : s.held[d] <= s.peaks.held[d]

\* And they account for the tickets t.
Accounts(s, t) ==
    \A d \in Domains : /\ s.booked[d] = BytesIn(t, ReservationsIn(t, d))
                       /\ s.held[d] >= BytesIn(t, ChargesIn(t, d))
                       /\ ~FrameRollback => s.held[d] = BytesIn(t, ChargesIn(t, d))

InOrder(s, t) == s \in LedgerStates /\ Balanced(s) /\ Covered(s) /\ Accounts(s, t)

\* A container's charges are of one domain.
Owners(t) ==
    /\ \A i \in Tickets : t[i].at \in Parts => t[i].dom = "LuaHeap"
    /\ \A i, j \in Tickets : t[i].at \in Groups /\ t[i].at = t[j].at => t[i].dom = t[j].dom

\* The state a preparation noted would be in order even now, and less the excess
\* it accounts for the one charge that takes the group's place.
PreparedInv ==
    \A p \in prepared :
       /\ p.group \in Groups /\ p.id \in Tickets /\ p.dom \in Domains /\ p.excess \in Nat
       /\ tickets[p.id].at = "pending" /\ tickets[p.id].dom = p.dom
       /\ \A j \in Owned({p.group}) : tickets[j].dom = p.dom
       /\ BytesIn(tickets, Owned({p.group})) = p.excess + tickets[p.id].bytes
       /\ InOrder(p.before, tickets)
       /\ p.before.peaks = state.peaks
       /\ ~FrameRollback => p.before = state

BalanceInv ==
    /\ tickets \in Tables
    /\ InOrder(state, tickets)
    /\ Owners(tickets)
    /\ PreparedInv

-----------------------------------------------------------------------------
(* The ledger's state.                                                     *)

LEMMA PeaksRecorded ==
    ASSUME NEW s \in LedgerStates, Balanced(s)
    PROVE  /\ WithPeaks(s) \in LedgerStates /\ Balanced(WithPeaks(s)) /\ Covered(WithPeaks(s))
           /\ WithPeaks(s).booked = s.booked /\ WithPeaks(s).held = s.held
           /\ WithPeaks(s).reserved = s.reserved /\ WithPeaks(s).committed = s.committed
           /\ WithPeaks(s).limit = s.limit
  <1> DEFINE p == [committed   |-> Max2(s.peaks.committed, s.committed),
                   outstanding |-> Max2(s.peaks.outstanding, s.committed + s.reserved),
                   held        |-> [d \in Domains |-> Max2(s.peaks.held[d], s.held[d])]]
  <1>1. WithPeaks(s) = [s EXCEPT !.peaks = p]
    BY DEF WithPeaks
  <1>2. /\ s.committed \in Nat /\ s.reserved \in Nat /\ s.peaks.committed \in Nat
        /\ s.peaks.outstanding \in Nat
        /\ \A d \in Domains : s.held[d] \in Nat /\ s.peaks.held[d] \in Nat
    BY DEF LedgerStates
  <1>3. \A a, b \in Nat : Max2(a, b) \in Nat /\ b <= Max2(a, b)
    BY DEF Max2
  <1>4. s.committed + s.reserved \in Nat
    BY <1>2
  <1>5. p \in [committed : Nat, outstanding : Nat, held : [Domains -> Nat]]
    BY <1>2, <1>3, <1>4, Zenon
  <1>6. /\ s.committed <= p.committed /\ s.committed + s.reserved <= p.outstanding
        /\ \A d \in Domains : s.held[d] <= p.held[d]
    BY <1>2, <1>3, <1>4, Zenon
  <1> HIDE DEF p
  <1>7. /\ WithPeaks(s) \in LedgerStates
        /\ WithPeaks(s).booked = s.booked /\ WithPeaks(s).held = s.held
        /\ WithPeaks(s).reserved = s.reserved /\ WithPeaks(s).committed = s.committed
        /\ WithPeaks(s).limit = s.limit /\ WithPeaks(s).poisoned = s.poisoned
        /\ WithPeaks(s).peaks = p
    BY <1>1, <1>5 DEF LedgerStates
  <1> QED
    BY <1>6, <1>7 DEF Balanced, Covered

\* Steps that leave the balances and the peaks alone.
LEMMA SettingsChange ==
    ASSUME NEW s, NEW t, InOrder(s, t), NEW r \in LedgerStates,
           r.committed = s.committed, r.reserved = s.reserved, r.held = s.held,
           r.booked = s.booked, r.peaks = s.peaks, r.poisoned = s.poisoned
    PROVE  InOrder(r, t)
  BY DEF InOrder, Balanced, Covered, Accounts

LEMMA AttemptState ==
    ASSUME NEW s \in LedgerStates
    PROVE  /\ Attempt(s) \in LedgerStates
           /\ Attempt(s).committed = s.committed /\ Attempt(s).reserved = s.reserved
           /\ Attempt(s).held = s.held /\ Attempt(s).booked = s.booked
           /\ Attempt(s).peaks = s.peaks /\ Attempt(s).poisoned = s.poisoned
           /\ Attempt(s).limit = s.limit
  BY DEF Attempt, LedgerStates

\* An attempt alone leaves the balances as they were.
LEMMA AttemptBalanced ==
    ASSUME NEW s \in LedgerStates, NEW t, Balanced(s), Accounts(s, t)
    PROVE  /\ Attempt(s) \in LedgerStates /\ Balanced(Attempt(s)) /\ Accounts(Attempt(s), t)
           /\ Attempt(s).committed = s.committed /\ Attempt(s).reserved = s.reserved
  <1> DEFINE a == Attempt(s)
  <1>1. /\ a \in LedgerStates /\ a.committed = s.committed /\ a.reserved = s.reserved
        /\ a.held = s.held /\ a.booked = s.booked /\ a.poisoned = s.poisoned
    BY AttemptState
  <1> HIDE DEF a
  <1>2. Balanced(a)
    BY <1>1, Zenon DEF Balanced
  <1>3. Accounts(a, t)
    BY <1>1, Zenon DEF Accounts
  <1> QED
    BY <1>1, <1>2, <1>3, Zenon DEF a

\* What b bytes in and out of the books of the domain d make of them.
Changed(s, r, d, booked, held) ==
    /\ r \in LedgerStates /\ Balanced(r) /\ Covered(r)
    /\ r.booked = [s.booked EXCEPT ![d] = @ + booked] /\ r.held = [s.held EXCEPT ![d] = @ + held]
    /\ r.reserved = s.reserved + booked /\ r.committed = s.committed + held

LEMMA BookState ==
    ASSUME NEW s \in LedgerStates, Balanced(s), NEW b \in Nat, NEW d \in Domains
    PROVE  Changed(s, Book(s, b, d), d, b, 0)
  <1> DEFINE q == [s EXCEPT !.reserved = @ + b, !.booked[d] = @ + b]
  <1>1. Book(s, b, d) = WithPeaks(q)
    BY DEF Book
  <1>2. /\ q.booked = [s.booked EXCEPT ![d] = @ + b] /\ q.held = s.held
        /\ q.reserved = s.reserved + b /\ q.committed = s.committed /\ q.poisoned = s.poisoned
    BY DEF LedgerStates
  <1>3. /\ s.booked \in [Domains -> Nat] /\ s.reserved \in Nat
        /\ s.booked["LuaHeap"] \in Nat /\ s.booked["Host"] \in Nat
    BY DEF LedgerStates, Domains
  <1>4. q \in LedgerStates
    <2>1. s.reserved + b \in Nat /\ [s.booked EXCEPT ![d] = @ + b] \in [Domains -> Nat]
      BY <1>3
    <2> QED
      BY <2>1, Zenon DEF LedgerStates
  <1> HIDE DEF q
  <1>5. d = "LuaHeap" \/ d = "Host"
    BY DEF Domains
  <1>6. q.reserved = q.booked["LuaHeap"] + q.booked["Host"]
    BY <1>2, <1>3, <1>5 DEF Balanced, Domains
  <1>7. Balanced(q)
    BY <1>2, <1>6 DEF Balanced
  <1> QED
    <2>1. [s.held EXCEPT ![d] = @ + 0] = s.held /\ s.committed + 0 = s.committed
      BY DEF LedgerStates
    <2> QED
      BY <1>1, <1>2, <1>4, <1>7, <2>1, PeaksRecorded DEF Changed

LEMMA UnbookState ==
    ASSUME NEW s \in LedgerStates, Balanced(s), Covered(s), NEW d \in Domains, NEW b \in Nat,
           b <= s.booked[d]
    PROVE  Changed(s, Unbook(s, b, d), d, -b, 0)
  <1>1. /\ s.booked \in [Domains -> Nat] /\ s.reserved \in Nat /\ s.committed \in Nat
        /\ s.booked["LuaHeap"] \in Nat /\ s.booked["Host"] \in Nat /\ s.peaks.outstanding \in Nat
    BY DEF LedgerStates, Domains
  <1>2. d = "LuaHeap" \/ d = "Host"
    BY DEF Domains
  <1>3. ~(s.reserved < b) /\ ~(s.booked[d] < b)
    BY <1>1, <1>2 DEF Balanced
  <1> DEFINE r == [s EXCEPT !.reserved = @ - b, !.booked[d] = @ - b]
  <1>4. Unbook(s, b, d) = r
    BY <1>3 DEF Unbook
  <1>5. /\ r.booked = [s.booked EXCEPT ![d] = @ - b] /\ r.held = s.held /\ r.peaks = s.peaks
        /\ r.reserved = s.reserved - b /\ r.committed = s.committed /\ r.poisoned = s.poisoned
    BY DEF LedgerStates
  <1>6. s.reserved - b \in Nat /\ s.booked[d] - b \in Nat
    BY <1>1, <1>2, <1>3
  <1>7. r \in LedgerStates
    BY <1>1, <1>6, Zenon DEF LedgerStates
  <1> HIDE DEF r
  <1>8. r.reserved = r.booked["LuaHeap"] + r.booked["Host"]
    BY <1>1, <1>2, <1>5 DEF Balanced, Domains
  <1>9. s.committed + r.reserved <= s.peaks.outstanding
    BY <1>1, <1>5 DEF Covered
  <1>10. Balanced(r) /\ Covered(r)
    BY <1>5, <1>8, <1>9 DEF Balanced, Covered
  <1>11. /\ [s.held EXCEPT ![d] = @ + 0] = s.held /\ s.committed + 0 = s.committed
         /\ [s.booked EXCEPT ![d] = @ + (-b)] = r.booked /\ s.reserved + (-b) = r.reserved
    BY <1>1, <1>5 DEF LedgerStates
  <1> QED
    BY <1>4, <1>5, <1>7, <1>10, <1>11 DEF Changed

LEMMA CommittedState ==
    ASSUME NEW s \in LedgerStates, Balanced(s), NEW d \in Domains, NEW b \in Nat,
           b <= s.booked[d]
    PROVE  Changed(s, Committed(s, b, d), d, -b, b)
  <1>1. /\ s.booked \in [Domains -> Nat] /\ s.held \in [Domains -> Nat]
        /\ s.reserved \in Nat /\ s.committed \in Nat
        /\ s.booked["LuaHeap"] \in Nat /\ s.booked["Host"] \in Nat
        /\ s.held["LuaHeap"] \in Nat /\ s.held["Host"] \in Nat
    BY DEF LedgerStates, Domains
  <1>2. d = "LuaHeap" \/ d = "Host"
    BY DEF Domains
  <1> DEFINE q == [s EXCEPT !.reserved = @ - b, !.booked[d] = @ - b,
                            !.committed = @ + b, !.held[d] = @ + b]
  <1>4. Committed(s, b, d) = WithPeaks(q)
    BY DEF Committed
  <1>5. /\ q.booked = [s.booked EXCEPT ![d] = @ - b] /\ q.held = [s.held EXCEPT ![d] = @ + b]
        /\ q.reserved = s.reserved - b /\ q.committed = s.committed + b /\ q.poisoned = s.poisoned
    BY DEF LedgerStates
  <1>6. s.reserved - b \in Nat /\ s.booked[d] - b \in Nat
    BY <1>1, <1>2 DEF Balanced
  <1>7. q \in LedgerStates
    <2>1. [s.booked EXCEPT ![d] = @ - b] \in [Domains -> Nat]
      BY <1>1, <1>6
    <2>2. s.committed + b \in Nat /\ [s.held EXCEPT ![d] = @ + b] \in [Domains -> Nat]
      BY <1>1
    <2> QED
      BY <1>6, <2>1, <2>2, Zenon DEF LedgerStates
  <1> HIDE DEF q
  <1>8. q.reserved = q.booked["LuaHeap"] + q.booked["Host"]
    BY <1>1, <1>2, <1>5 DEF Balanced, Domains
  <1>9. q.committed = q.held["LuaHeap"] + q.held["Host"]
    BY <1>1, <1>2, <1>5 DEF Balanced, Domains
  <1>10. Balanced(q)
    BY <1>5, <1>8, <1>9 DEF Balanced
  <1>11. [s.booked EXCEPT ![d] = @ + (-b)] = q.booked /\ s.reserved + (-b) = q.reserved
    BY <1>1, <1>5 DEF LedgerStates
  <1> QED
    BY <1>4, <1>5, <1>7, <1>10, <1>11, PeaksRecorded DEF Changed

LEMMA RefundState ==
    ASSUME NEW s \in LedgerStates, Balanced(s), Covered(s), NEW d \in Domains, NEW b \in Nat,
           b <= s.held[d]
    PROVE  /\ Refund(s, b, d) = [s EXCEPT !.committed = @ - b, !.held[d] = @ - b]
           /\ Changed(s, Refund(s, b, d), d, 0, -b) /\ Refund(s, b, d).peaks = s.peaks
  <1>1. /\ s.held \in [Domains -> Nat] /\ s.reserved \in Nat /\ s.committed \in Nat
        /\ s.held["LuaHeap"] \in Nat /\ s.held["Host"] \in Nat
        /\ s.peaks.outstanding \in Nat /\ s.peaks.committed \in Nat
        /\ \A e \in Domains : s.peaks.held[e] \in Nat
    BY DEF LedgerStates, Domains
  <1>2. d = "LuaHeap" \/ d = "Host"
    BY DEF Domains
  <1>3. ~(s.committed < b) /\ ~(s.held[d] < b) /\ ~s.poisoned
    BY <1>1, <1>2 DEF Balanced
  <1> DEFINE r == [s EXCEPT !.committed = @ - b, !.held[d] = @ - b]
  <1>4. Refund(s, b, d) = r
    BY <1>3 DEF Refund
  <1>5. /\ r.held = [s.held EXCEPT ![d] = @ - b] /\ r.booked = s.booked /\ r.peaks = s.peaks
        /\ r.committed = s.committed - b /\ r.reserved = s.reserved /\ r.poisoned = s.poisoned
    BY DEF LedgerStates
  <1>6. s.committed - b \in Nat /\ s.held[d] - b \in Nat
    BY <1>1, <1>2, <1>3
  <1>7. r \in LedgerStates
    BY <1>1, <1>6, Zenon DEF LedgerStates
  <1> HIDE DEF r
  <1>8. r.committed = r.held["LuaHeap"] + r.held["Host"]
    BY <1>1, <1>2, <1>5 DEF Balanced, Domains
  <1>9. r.committed + r.reserved <= r.peaks.outstanding /\ r.committed <= r.peaks.committed
    BY <1>1, <1>5 DEF Covered
  <1>10. ASSUME NEW e \in Domains PROVE r.held[e] <= r.peaks.held[e]
    <2>1. s.held[e] <= s.peaks.held[e] /\ s.held[e] \in Nat /\ s.peaks.held[e] \in Nat
      BY <1>1 DEF Covered
    <2>2. r.held[e] = IF e = d THEN s.held[e] - b ELSE s.held[e]
      BY <1>1, <1>5
    <2> QED
      BY <1>5, <2>1, <2>2
  <1>11. Balanced(r) /\ Covered(r)
    BY <1>5, <1>8, <1>9, <1>10 DEF Balanced, Covered
  <1>12. /\ [s.booked EXCEPT ![d] = @ + 0] = s.booked /\ s.reserved + 0 = s.reserved
         /\ [s.held EXCEPT ![d] = @ + (-b)] = r.held /\ s.committed + (-b) = r.committed
    BY <1>1, <1>5 DEF LedgerStates
  <1>13. Changed(s, r, d, 0, -b)
    BY <1>5, <1>7, <1>11, <1>12 DEF Changed
  <1> QED
    BY <1>4, <1>5, <1>13 DEF r

-----------------------------------------------------------------------------
(* The tickets.                                                            *)

\* Two tickets the ledger does not tell apart.
Alike(x, y) ==
    /\ x.at = "reservation" <=> y.at = "reservation"
    /\ x.at \in ChargeAts <=> y.at \in ChargeAts
    /\ x.at \in ChargeAts \cup {"reservation"} => x.bytes = y.bytes /\ x.dom = y.dom

LEMMA AtsApart == /\ "reservation" \notin ChargeAts /\ None \notin ChargeAts
                  /\ "pending" \notin ChargeAts /\ None # "reservation" /\ "pending" # "reservation"
                  /\ "pending" # None
  BY LedgerAssumption DEF ChargeAts, None, Parts

LEMMA NothingMoves ==
    ASSUME NEW t \in Tables, NEW u \in Tables, NEW s, InOrder(s, t),
           \A i \in Tickets : Alike(t[i], u[i])
    PROVE  InOrder(s, u)
  <1>1. ASSUME NEW d \in Domains
        PROVE  /\ BytesIn(u, ReservationsIn(u, d)) = BytesIn(t, ReservationsIn(t, d))
               /\ BytesIn(u, ChargesIn(u, d)) = BytesIn(t, ChargesIn(t, d))
    <2>1. ReservationsIn(u, d) = ReservationsIn(t, d) /\ ChargesIn(u, d) = ChargesIn(t, d)
      BY DEF Alike, ReservationsIn, ChargesIn
    <2>2. IsFiniteSet(ReservationsIn(t, d)) /\ IsFiniteSet(ChargesIn(t, d))
      BY LedgerAssumption, FS_Subset DEF ReservationsIn, ChargesIn
    <2>3. \A i \in ReservationsIn(t, d) \cup ChargesIn(t, d) : t[i].bytes = u[i].bytes
      BY DEF Alike, ReservationsIn, ChargesIn
    <2> QED
      BY <2>1, <2>2, <2>3, BytesSame
  <1> QED
    BY <1>1 DEF InOrder, Accounts

\* What becomes of a sum when tickets R leave a class and tickets A join it.
LEMMA TicketsMoved ==
    ASSUME NEW t \in Tables, NEW u \in Tables,
           NEW S \in SUBSET Tickets, NEW R \in SUBSET S, NEW A \in SUBSET Tickets,
           A \cap (S \ R) = {},
           \A i \in S \ R : u[i].bytes = t[i].bytes
    PROVE  Moved(t, u, S, R, A)
  <1>1. \A i \in Tickets : t[i].bytes \in Nat /\ u[i].bytes \in Nat
    BY DEF Tables
  <1>2. IsFiniteSet(Tickets)
    BY LedgerAssumption
  <1> QED
    BY <1>1, <1>2, BytesMoved

LEMMA Few ==
    ASSUME NEW t \in Tables
    PROVE  BytesIn(t, {}) = 0 /\ \A i \in Tickets : BytesIn(t, {i}) = t[i].bytes /\ t[i].bytes \in Nat
  <1>1. \A i \in Tickets : t[i].bytes \in Nat
    BY DEF Tables
  <1> QED
    BY <1>1, BytesFew

\* From the tickets t to the tickets u, the bytes of one domain change so much.
Shifted(t, u, d, booked, held) ==
    /\ \A e \in Domains : BytesIn(t, ChargesIn(t, e)) \in Nat
    /\ BytesIn(u, ReservationsIn(u, d)) = BytesIn(t, ReservationsIn(t, d)) + booked
    /\ BytesIn(u, ChargesIn(u, d)) = BytesIn(t, ChargesIn(t, d)) + held
    /\ \A e \in Domains \ {d} :
          /\ BytesIn(u, ReservationsIn(u, e)) = BytesIn(t, ReservationsIn(t, e))
          /\ BytesIn(u, ChargesIn(u, e)) = BytesIn(t, ChargesIn(t, e))

\* When only the tickets X change, all of the domain d.
LEMMA Shifting ==
    ASSUME NEW t \in Tables, NEW u \in Tables, NEW d \in Domains, NEW X \in SUBSET Tickets,
           \A i \in Tickets \ X : Alike(t[i], u[i]),
           \A i \in X : /\ t[i].at \in ChargeAts \cup {"reservation"} => t[i].dom = d
                        /\ u[i].at \in ChargeAts \cup {"reservation"} => u[i].dom = d
    PROVE  /\ Shifted(t, u, d, BytesIn(u, X \cap ReservationsIn(u, d)) - BytesIn(t, X \cap ReservationsIn(t, d)),
                              BytesIn(u, X \cap ChargesIn(u, d)) - BytesIn(t, X \cap ChargesIn(t, d)))
           /\ BytesIn(t, X \cap ReservationsIn(t, d)) <= BytesIn(t, ReservationsIn(t, d))
           /\ BytesIn(t, X \cap ChargesIn(t, d)) <= BytesIn(t, ChargesIn(t, d))
           /\ BytesIn(t, X \cap ChargesIn(t, d)) \in Nat /\ BytesIn(t, ChargesIn(t, d)) \in Nat
  <1>1. \A e \in Domains : ReservationsIn(t, e) \in SUBSET Tickets /\ ChargesIn(t, e) \in SUBSET Tickets
    BY DEF ReservationsIn, ChargesIn
  <1>2. \A e \in Domains : \A i \in (ReservationsIn(t, e) \cup ChargesIn(t, e)) \ X : u[i].bytes = t[i].bytes
    BY DEF Alike, ReservationsIn, ChargesIn
  <1>3. ASSUME NEW e \in Domains
        PROVE  /\ BytesIn(t, ChargesIn(t, e)) \in Nat
               /\ e # d => /\ BytesIn(u, ReservationsIn(u, e)) = BytesIn(t, ReservationsIn(t, e))
                          /\ BytesIn(u, ChargesIn(u, e)) = BytesIn(t, ChargesIn(t, e))
    <2>1. IsFiniteSet(ReservationsIn(t, e)) /\ IsFiniteSet(ChargesIn(t, e))
      BY <1>1, LedgerAssumption, FS_Subset
    <2>2. \A i \in ChargesIn(t, e) : t[i].bytes \in Nat
      BY <1>1 DEF Tables
    <2>3. BytesIn(t, ChargesIn(t, e)) \in Nat
      BY <2>1, <2>2, BytesRemove
    <2>4. CASE e # d
      <3>1. ReservationsIn(t, e) \cap X = {} /\ ChargesIn(t, e) \cap X = {}
        BY <2>4 DEF ReservationsIn, ChargesIn
      <3>2. ReservationsIn(u, e) = ReservationsIn(t, e) /\ ChargesIn(u, e) = ChargesIn(t, e)
        BY <2>4 DEF Alike, ReservationsIn, ChargesIn
      <3>3. \A i \in ReservationsIn(t, e) \cup ChargesIn(t, e) : t[i].bytes = u[i].bytes
        BY <1>2, <3>1
      <3> QED
        BY <2>1, <2>3, <3>2, <3>3, BytesSame
    <2> QED
      BY <2>3, <2>4
  <1>4. /\ ReservationsIn(u, d) = (ReservationsIn(t, d) \ (X \cap ReservationsIn(t, d)))
                                   \cup (X \cap ReservationsIn(u, d))
        /\ ChargesIn(u, d) = (ChargesIn(t, d) \ (X \cap ChargesIn(t, d))) \cup (X \cap ChargesIn(u, d))
    BY DEF Alike, ReservationsIn, ChargesIn
  <1> DEFINE S == ReservationsIn(t, d)
             R == X \cap ReservationsIn(t, d)
             A == X \cap ReservationsIn(u, d)
             V == ChargesIn(t, d)
             Q == X \cap ChargesIn(t, d)
             B == X \cap ChargesIn(u, d)
  <1>5. /\ S \in SUBSET Tickets /\ R \in SUBSET S /\ A \in SUBSET Tickets /\ A \cap (S \ R) = {}
        /\ V \in SUBSET Tickets /\ Q \in SUBSET V /\ B \in SUBSET Tickets /\ B \cap (V \ Q) = {}
    BY <1>1
  <1>6. (\A i \in S \ R : u[i].bytes = t[i].bytes) /\ (\A i \in V \ Q : u[i].bytes = t[i].bytes)
    BY <1>2
  <1>7. ReservationsIn(u, d) = (S \ R) \cup A /\ ChargesIn(u, d) = (V \ Q) \cup B
    BY <1>4
  <1> HIDE DEF S, R, A, V, Q, B
  <1>8. Moved(t, u, S, R, A) /\ Moved(t, u, V, Q, B)
    BY <1>5, <1>6, TicketsMoved
  <1>9. /\ BytesIn(u, ReservationsIn(u, d)) = BytesIn(t, S) + (BytesIn(u, A) - BytesIn(t, R))
        /\ BytesIn(u, ChargesIn(u, d)) = BytesIn(t, V) + (BytesIn(u, B) - BytesIn(t, Q))
        /\ BytesIn(t, R) <= BytesIn(t, S) /\ BytesIn(t, Q) <= BytesIn(t, V)
        /\ BytesIn(t, Q) \in Nat /\ BytesIn(t, V) \in Nat
    BY <1>7, <1>8, SMTT(30) DEF Moved
  <1>10. Shifted(t, u, d, BytesIn(u, A) - BytesIn(t, R), BytesIn(u, B) - BytesIn(t, Q))
    BY <1>3, <1>9 DEF Shifted, S, V
  <1> QED
    BY <1>9, <1>10 DEF S, R, A, V, Q, B

\* The balances follow the tickets.
LEMMA Restated ==
    ASSUME NEW t, NEW u, NEW s, NEW r, NEW d \in Domains, NEW booked \in Int, NEW held \in Int,
           s \in LedgerStates, Accounts(s, t), Changed(s, r, d, booked, held),
           Shifted(t, u, d, booked, held)
    PROVE  InOrder(r, u)
  <1>1. /\ s.held \in [Domains -> Nat] /\ s.booked \in [Domains -> Nat] /\ r \in LedgerStates
        /\ r.held = [s.held EXCEPT ![d] = @ + held] /\ r.booked = [s.booked EXCEPT ![d] = @ + booked]
    BY DEF LedgerStates, Changed
  <1>2. ASSUME NEW e \in Domains
        PROVE  /\ r.booked[e] = BytesIn(u, ReservationsIn(u, e))
               /\ r.held[e] >= BytesIn(u, ChargesIn(u, e))
               /\ ~FrameRollback => r.held[e] = BytesIn(u, ChargesIn(u, e))
    <2>1. /\ s.booked[e] = BytesIn(t, ReservationsIn(t, e)) /\ s.held[e] >= BytesIn(t, ChargesIn(t, e))
          /\ ~FrameRollback => s.held[e] = BytesIn(t, ChargesIn(t, e))
          /\ s.held[e] \in Nat /\ BytesIn(t, ChargesIn(t, e)) \in Nat
      BY <1>1 DEF Accounts, Shifted
    <2>2. CASE e = d
      <3>1. r.booked[e] = s.booked[e] + booked /\ r.held[e] = s.held[e] + held
        BY <1>1, <2>2
      <3>2. /\ BytesIn(u, ReservationsIn(u, e)) = BytesIn(t, ReservationsIn(t, e)) + booked
            /\ BytesIn(u, ChargesIn(u, e)) = BytesIn(t, ChargesIn(t, e)) + held
        BY <2>2 DEF Shifted
      <3> QED
        BY <2>1, <3>1, <3>2
    <2>3. CASE e # d
      <3>1. r.booked[e] = s.booked[e] /\ r.held[e] = s.held[e]
        BY <1>1, <2>3
      <3>2. /\ BytesIn(u, ReservationsIn(u, e)) = BytesIn(t, ReservationsIn(t, e))
            /\ BytesIn(u, ChargesIn(u, e)) = BytesIn(t, ChargesIn(t, e))
        BY <2>3 DEF Shifted
      <3> QED
        BY <2>1, <3>1, <3>2
    <2> QED
      BY <2>2, <2>3
  <1> QED
    BY <1>1, <1>2 DEF InOrder, Accounts, Changed

-----------------------------------------------------------------------------
(* What the operations make of the balances.                               *)

\* A reservation is made.
LEMMA Booking ==
    ASSUME NEW t \in Tables, NEW u \in Tables, NEW s, InOrder(s, t), NEW i \in Tickets,
           t[i].at = None, u[i].at = "reservation",
           \A j \in Tickets \ {i} : Alike(t[j], u[j])
    PROVE  LET r == Book(Attempt(s), u[i].bytes, u[i].dom)
           IN  InOrder(r, u) /\ r.committed + r.reserved = s.committed + s.reserved + u[i].bytes
  <1> DEFINE a == Attempt(s)
             b == u[i].bytes
             d == u[i].dom
             r == Book(a, b, d)
  <1>1. d \in Domains /\ b \in Nat /\ s \in LedgerStates
    BY DEF Tables, InOrder
  <1>2. a \in LedgerStates /\ Balanced(a) /\ Accounts(a, t) /\ a.committed = s.committed /\ a.reserved = s.reserved
    BY <1>1, AttemptBalanced, Zenon DEF InOrder
  <1>3. Changed(a, r, d, b, 0)
    BY <1>1, <1>2, BookState
  <1>4. /\ {i} \cap ReservationsIn(t, d) = {} /\ {i} \cap ReservationsIn(u, d) = {i}
        /\ {i} \cap ChargesIn(t, d) = {} /\ {i} \cap ChargesIn(u, d) = {}
    BY AtsApart, Zenon DEF ReservationsIn, ChargesIn
  <1>5. Shifted(t, u, d, BytesIn(u, {i}) - BytesIn(t, {}), BytesIn(u, {}) - BytesIn(t, {}))
    <2>1. \A j \in {i} : /\ t[j].at \in ChargeAts \cup {"reservation"} => t[j].dom = d
                         /\ u[j].at \in ChargeAts \cup {"reservation"} => u[j].dom = d
      BY AtsApart
    <2>2. {i} \in SUBSET Tickets
      OBVIOUS
    <2> QED
      BY <1>1, <1>4, <2>1, <2>2, Shifting, ZenonT(40)
  <1>6. BytesIn(u, {i}) - BytesIn(t, {}) = b /\ BytesIn(u, {}) - BytesIn(t, {}) = 0
    BY <1>1, Few
  <1>7. Shifted(t, u, d, b, 0)
    BY <1>5, <1>6
  <1> HIDE DEF a, b, d, r
  <1>8. InOrder(r, u)
    BY <1>1, <1>2, <1>3, <1>7, Restated, SMTT(30)
  <1>9. r.committed + r.reserved = s.committed + s.reserved + b
    BY <1>1, <1>2, <1>3 DEF Changed, LedgerStates
  <1> QED
    BY <1>8, <1>9 DEF a, b, d, r

\* A reservation is dropped.
LEMMA Unbooking ==
    ASSUME NEW t \in Tables, NEW u \in Tables, NEW s, InOrder(s, t), NEW i \in Tickets,
           t[i].at = "reservation", u[i].at = None,
           \A j \in Tickets \ {i} : Alike(t[j], u[j])
    PROVE  LET r == Unbook(s, t[i].bytes, t[i].dom)
           IN  InOrder(r, u) /\ r.committed + r.reserved <= s.committed + s.reserved
  <1> DEFINE b == t[i].bytes
             d == t[i].dom
             r == Unbook(s, b, d)
  <1>1. d \in Domains /\ b \in Nat /\ s \in LedgerStates /\ Balanced(s) /\ Covered(s) /\ Accounts(s, t)
    BY DEF Tables, InOrder
  <1>2. /\ {i} \cap ReservationsIn(t, d) = {i} /\ {i} \cap ReservationsIn(u, d) = {}
        /\ {i} \cap ChargesIn(t, d) = {} /\ {i} \cap ChargesIn(u, d) = {}
    BY AtsApart, Zenon DEF ReservationsIn, ChargesIn
  <1>3. /\ Shifted(t, u, d, BytesIn(u, {}) - BytesIn(t, {i}), BytesIn(u, {}) - BytesIn(t, {}))
        /\ BytesIn(t, {i}) <= BytesIn(t, ReservationsIn(t, d))
    <2>1. \A j \in {i} : /\ t[j].at \in ChargeAts \cup {"reservation"} => t[j].dom = d
                         /\ u[j].at \in ChargeAts \cup {"reservation"} => u[j].dom = d
      BY AtsApart
    <2>2. {i} \in SUBSET Tickets
      OBVIOUS
    <2> QED
      BY <1>1, <1>2, <2>1, <2>2, Shifting, ZenonT(40)
  <1>4. BytesIn(u, {}) - BytesIn(t, {i}) = -b /\ BytesIn(u, {}) - BytesIn(t, {}) = 0 /\ BytesIn(t, {i}) = b
    BY <1>1, Few, SMTT(30)
  <1>5. Shifted(t, u, d, -b, 0) /\ b <= s.booked[d]
    BY <1>1, <1>3, <1>4 DEF Accounts
  <1> HIDE DEF b, d, r
  <1>6. Changed(s, r, d, -b, 0)
    BY <1>1, <1>5, UnbookState DEF r
  <1>7. -b \in Int
    BY <1>1
  <1>8. InOrder(r, u)
    BY <1>1, <1>5, <1>6, <1>7, Restated, SMTT(30)
  <1>9. r.committed + r.reserved <= s.committed + s.reserved
    BY <1>1, <1>6 DEF Changed, LedgerStates
  <1> QED
    BY <1>8, <1>9 DEF b, d, r

\* A reservation becomes a charge.
LEMMA Committing ==
    ASSUME NEW t \in Tables, NEW u \in Tables, NEW s, InOrder(s, t), NEW i \in Tickets,
           t[i].at = "reservation", u[i].at \in ChargeAts,
           u[i].bytes = t[i].bytes, u[i].dom = t[i].dom,
           \A j \in Tickets \ {i} : Alike(t[j], u[j])
    PROVE  LET r == Committed(s, t[i].bytes, t[i].dom)
           IN  InOrder(r, u) /\ r.committed + r.reserved = s.committed + s.reserved
  <1> DEFINE b == t[i].bytes
             d == t[i].dom
             r == Committed(s, b, d)
  <1>1. d \in Domains /\ b \in Nat /\ s \in LedgerStates /\ Balanced(s) /\ Covered(s) /\ Accounts(s, t)
    BY DEF Tables, InOrder
  <1>2. /\ {i} \cap ReservationsIn(t, d) = {i} /\ {i} \cap ReservationsIn(u, d) = {}
        /\ {i} \cap ChargesIn(t, d) = {} /\ {i} \cap ChargesIn(u, d) = {i}
    BY AtsApart, Zenon DEF ReservationsIn, ChargesIn
  <1>3. /\ Shifted(t, u, d, BytesIn(u, {}) - BytesIn(t, {i}), BytesIn(u, {i}) - BytesIn(t, {}))
        /\ BytesIn(t, {i}) <= BytesIn(t, ReservationsIn(t, d))
    <2>1. \A j \in {i} : /\ t[j].at \in ChargeAts \cup {"reservation"} => t[j].dom = d
                         /\ u[j].at \in ChargeAts \cup {"reservation"} => u[j].dom = d
      OBVIOUS
    <2>2. {i} \in SUBSET Tickets
      OBVIOUS
    <2> QED
      BY <1>1, <1>2, <2>1, <2>2, Shifting, ZenonT(40)
  <1>4. BytesIn(u, {}) - BytesIn(t, {i}) = -b /\ BytesIn(u, {i}) - BytesIn(t, {}) = b /\ BytesIn(t, {i}) = b
    BY <1>1, Few, SMTT(30)
  <1>5. Shifted(t, u, d, -b, b) /\ b <= s.booked[d]
    BY <1>1, <1>3, <1>4, Zenon DEF Accounts
  <1> HIDE DEF b, d, r
  <1>6. Changed(s, r, d, -b, b)
    BY <1>1, <1>5, CommittedState DEF r
  <1>7. -b \in Int
    BY <1>1, SMTT(30)
  <1>8. InOrder(r, u)
    BY <1>1, <1>5, <1>6, <1>7, Restated, SMTT(30)
  <1>9. r.committed + r.reserved = s.committed + s.reserved
    BY <1>1, <1>6 DEF Changed, LedgerStates
  <1> QED
    BY <1>8, <1>9 DEF b, d, r

\* The charges R of the domain d are dropped.
LEMMA Refunding ==
    ASSUME NEW t \in Tables, NEW u \in Tables, NEW s, InOrder(s, t), NEW d \in Domains,
           NEW R \in SUBSET ChargesIn(t, d), \A i \in R : u[i].at = None,
           \A i \in Tickets \ R : Alike(t[i], u[i])
    PROVE  LET r == Refund(s, BytesIn(t, R), d)
           IN  /\ InOrder(r, u) /\ r.peaks = s.peaks
               /\ r.committed + r.reserved <= s.committed + s.reserved
  <1> DEFINE b == BytesIn(t, R)
             r == Refund(s, b, d)
  <1>1. s \in LedgerStates /\ Balanced(s) /\ Covered(s) /\ Accounts(s, t)
    BY DEF InOrder
  <1>2. /\ R \cap ReservationsIn(t, d) = {} /\ R \cap ReservationsIn(u, d) = {}
        /\ R \cap ChargesIn(t, d) = R /\ R \cap ChargesIn(u, d) = {} /\ R \in SUBSET Tickets
    BY AtsApart, Zenon DEF ReservationsIn, ChargesIn
  <1>3. /\ Shifted(t, u, d, BytesIn(u, {}) - BytesIn(t, {}), BytesIn(u, {}) - b)
        /\ b <= BytesIn(t, ChargesIn(t, d)) /\ b \in Nat /\ BytesIn(t, ChargesIn(t, d)) \in Nat
    <2>1. \A j \in R : /\ t[j].at \in ChargeAts \cup {"reservation"} => t[j].dom = d
                       /\ u[j].at \in ChargeAts \cup {"reservation"} => u[j].dom = d
      BY AtsApart DEF ChargesIn
    <2> QED
      BY <1>2, <2>1, Shifting, ZenonT(40)
  <1> HIDE DEF b
  <1>4. BytesIn(u, {}) - BytesIn(t, {}) = 0 /\ BytesIn(u, {}) - b = -b
    BY <1>3, Few
  <1>5. s.held[d] >= BytesIn(t, ChargesIn(t, d)) /\ s.held[d] \in Nat
    BY <1>1 DEF Accounts, LedgerStates
  <1>6. Shifted(t, u, d, 0, -b) /\ b <= s.held[d]
    BY <1>3, <1>4, <1>5, SMTT(30)
  <1> HIDE DEF r
  <1>7. Changed(s, r, d, 0, -b) /\ r.peaks = s.peaks
    BY <1>1, <1>3, <1>6, RefundState, Zenon DEF r
  <1>8. -b \in Int /\ 0 \in Int
    BY <1>3, SMTT(30)
  <1>9. InOrder(r, u)
    BY <1>1, <1>6, <1>7, <1>8, Restated
  <1>10. r.committed + r.reserved <= s.committed + s.reserved
    BY <1>1, <1>3, <1>7, SMTT(30) DEF Changed, LedgerStates
  <1> QED
    BY <1>7, <1>9, <1>10 DEF b, r

\* A state that counts too much, as it may when frames roll back, still does
\* when a charge goes.
LEMMA Overcounted ==
    ASSUME FrameRollback, NEW t \in Tables, NEW u \in Tables, NEW s, InOrder(s, t),
           NEW k \in Tickets, t[k].at \in ChargeAts, u[k].at = None,
           \A i \in Tickets \ {k} : Alike(t[i], u[i])
    PROVE  InOrder(s, u)
  <1> DEFINE d == t[k].dom
             R == {k}
  <1>0. d \in Domains /\ R \in SUBSET ChargesIn(t, d)
    BY DEF Tables, ChargesIn
  <1>1. s \in LedgerStates /\ Balanced(s) /\ Covered(s) /\ Accounts(s, t)
    BY DEF InOrder
  <1>2. /\ R \cap ReservationsIn(t, d) = {} /\ R \cap ReservationsIn(u, d) = {}
        /\ R \cap ChargesIn(t, d) = R /\ R \cap ChargesIn(u, d) = {} /\ R \in SUBSET Tickets
    BY AtsApart, Zenon DEF ReservationsIn, ChargesIn
  <1>3. /\ Shifted(t, u, d, BytesIn(u, {}) - BytesIn(t, {}), BytesIn(u, {}) - BytesIn(t, R))
        /\ BytesIn(t, R) \in Nat
    <2>1. \A j \in R : /\ t[j].at \in ChargeAts \cup {"reservation"} => t[j].dom = d
                       /\ u[j].at \in ChargeAts \cup {"reservation"} => u[j].dom = d
      BY AtsApart DEF ChargesIn
    <2> QED
      BY <1>0, <1>2, <2>1, Shifting, ZenonT(40)
  <1>4. BytesIn(u, {}) - BytesIn(t, {}) = 0 /\ BytesIn(u, {}) - BytesIn(t, R) = -BytesIn(t, R)
    BY <1>3, Few
  <1> HIDE DEF d, R
  <1>5. Shifted(t, u, d, 0, -BytesIn(t, R))
    BY <1>3, <1>4
  <1>6. ASSUME NEW e \in Domains
        PROVE  /\ s.booked[e] = BytesIn(u, ReservationsIn(u, e))
               /\ s.held[e] >= BytesIn(u, ChargesIn(u, e))
    <2>1. /\ s.booked[e] = BytesIn(t, ReservationsIn(t, e)) /\ s.held[e] >= BytesIn(t, ChargesIn(t, e))
          /\ s.held[e] \in Nat /\ s.booked[e] \in Nat /\ BytesIn(t, ChargesIn(t, e)) \in Nat
      BY <1>1, <1>5, Zenon DEF Accounts, Shifted, LedgerStates
    <2>2. CASE e = d
      <3>1. /\ BytesIn(u, ReservationsIn(u, e)) = BytesIn(t, ReservationsIn(t, e)) + 0
            /\ BytesIn(u, ChargesIn(u, e)) = BytesIn(t, ChargesIn(t, e)) + (-BytesIn(t, R))
        BY <1>5, <2>2, Zenon DEF Shifted
      <3> QED
        BY <1>3, <2>1, <3>1, SMTT(30)
    <2>3. CASE e # d
      BY <1>5, <2>1, <2>3, Zenon DEF Shifted
    <2> QED
      BY <2>2, <2>3
  <1> QED
    BY <1>1, <1>6 DEF InOrder, Accounts

\* What commit_normalize writes back.
Less(s, excess, d) == [s EXCEPT !.committed = @ - excess, !.held[d] = @ - excess]

\* The charges R of a group give way to the charge k for fewer bytes.
LEMMA Normalizing ==
    ASSUME NEW t \in Tables, NEW u \in Tables, NEW s, InOrder(s, t), NEW d \in Domains,
           NEW R \in SUBSET ChargesIn(t, d), NEW k \in Tickets, NEW excess \in Nat,
           BytesIn(t, R) = excess + t[k].bytes,
           t[k].at = "pending", u[k].at \in ChargeAts, u[k].bytes = t[k].bytes, u[k].dom = d,
           \A i \in R : u[i].at = None,
           \A i \in Tickets \ (R \cup {k}) : Alike(t[i], u[i])
    PROVE  LET r == Less(s, excess, d)
           IN  InOrder(r, u) /\ r.committed + r.reserved <= s.committed + s.reserved
  <1> DEFINE r == Less(s, excess, d)
             X == R \cup {k}
  <1>1. s \in LedgerStates /\ Balanced(s) /\ Covered(s) /\ Accounts(s, t)
    BY DEF InOrder
  <1>2. /\ X \cap ReservationsIn(t, d) = {} /\ X \cap ReservationsIn(u, d) = {}
        /\ X \cap ChargesIn(t, d) = R /\ X \cap ChargesIn(u, d) = {k} /\ X \in SUBSET Tickets
    BY AtsApart DEF ReservationsIn, ChargesIn
  <1>3. \A j \in X : /\ t[j].at \in ChargeAts \cup {"reservation"} => t[j].dom = d
                     /\ u[j].at \in ChargeAts \cup {"reservation"} => u[j].dom = d
    BY AtsApart DEF ChargesIn
  <1>4. \A i \in Tickets \ X : Alike(t[i], u[i])
    OBVIOUS
  <1> HIDE DEF X
  <1>5. /\ Shifted(t, u, d, BytesIn(u, {}) - BytesIn(t, {}), BytesIn(u, {k}) - BytesIn(t, R))
        /\ BytesIn(t, R) <= BytesIn(t, ChargesIn(t, d)) /\ BytesIn(t, ChargesIn(t, d)) \in Nat
    <2>1. X \in SUBSET Tickets
      BY <1>2
    <2>2. Shifted(t, u, d, BytesIn(u, X \cap ReservationsIn(u, d)) - BytesIn(t, X \cap ReservationsIn(t, d)),
                          BytesIn(u, X \cap ChargesIn(u, d)) - BytesIn(t, X \cap ChargesIn(t, d)))
      BY <1>3, <1>4, <2>1, Shifting, Zenon
    <2>3. BytesIn(t, X \cap ChargesIn(t, d)) <= BytesIn(t, ChargesIn(t, d))
      BY <1>3, <1>4, <2>1, Shifting, ZenonT(40)
    <2>4. BytesIn(t, ChargesIn(t, d)) \in Nat
      BY <2>2 DEF Shifted
    <2> QED
      BY <1>2, <2>2, <2>3, <2>4, Zenon
  <1>6. BytesIn(u, {}) - BytesIn(t, {}) = 0 /\ BytesIn(u, {k}) = t[k].bytes /\ t[k].bytes \in Nat
    BY Few, SMTT(30)
  <1>7. BytesIn(u, {k}) - BytesIn(t, R) = -excess
    BY <1>6, SMTT(30)
  <1>8. s.held[d] >= BytesIn(t, ChargesIn(t, d)) /\ s.held[d] \in Nat
    BY <1>1, Zenon DEF Accounts, LedgerStates
  <1>9. Shifted(t, u, d, 0, -excess)
    BY <1>5, <1>6, <1>7, Zenon
  <1>10. excess <= s.held[d]
    BY <1>5, <1>6, <1>8, SMTT(30)
  <1>11. Changed(s, r, d, 0, -excess) /\ r.peaks = s.peaks
    <2>1. r = Refund(s, excess, d)
      <3>1. s.held["LuaHeap"] \in Nat /\ s.held["Host"] \in Nat /\ (d = "LuaHeap" \/ d = "Host")
        BY <1>1, Zenon DEF LedgerStates, Domains
      <3>2. ~s.poisoned /\ s.committed = s.held["LuaHeap"] + s.held["Host"]
        BY <1>1, Zenon DEF Balanced
      <3>3. s.held[d] <= s.committed
        BY <3>1, <3>2, SMTT(30)
      <3>4. ~(s.committed < excess) /\ ~(s.held[d] < excess)
        BY <1>8, <1>10, <3>1, <3>2, <3>3
      <3> QED
        BY <3>2, <3>4, Zenon DEF Refund, Less
    <2> HIDE DEF r
    <2>2. Changed(s, Refund(s, excess, d), d, 0, -excess)
      BY <1>1, <1>10, RefundState, ZenonT(40)
    <2>3. Refund(s, excess, d).peaks = s.peaks
      BY <1>1, <1>10, RefundState, ZenonT(40)
    <2> QED
      BY <2>1, <2>2, <2>3
  <1> HIDE DEF r
  <1>12. -excess \in Int /\ 0 \in Int
    OBVIOUS
  <1>13. InOrder(r, u)
    BY <1>1, <1>9, <1>11, <1>12, Restated, Zenon
  <1>14. r.committed + r.reserved <= s.committed + s.reserved
    BY <1>1, <1>11, SMTT(30) DEF Changed, LedgerStates
  <1> QED
    BY <1>11, <1>13, <1>14 DEF r

-----------------------------------------------------------------------------
(* What each action does to the balances.                                  *)

\* What LimitRespected says of a step.
Within ==
    ~FrameRollback =>
       (state'.committed + state'.reserved > state.committed + state.reserved
          => state'.committed + state'.reserved <= state.limit)

\* A step that leaves what is outstanding, or lowers it.
LEMMA NotAbove ==
    ASSUME state \in LedgerStates, state' \in LedgerStates,
           state'.committed + state'.reserved <= state.committed + state.reserved
    PROVE  Within
  BY DEF Within, LedgerStates

LEMMA OwnersKept ==
    ASSUME NEW t \in Tables, NEW u \in Tables, Owners(t),
           \A i \in Tickets : u[i].at \in Parts \cup Groups => u[i].at = t[i].at /\ u[i].dom = t[i].dom
    PROVE  Owners(u)
  BY DEF Owners

\* Without a preparation there is little left to show.
LEMMA Settled ==
    ASSUME tickets' \in Tables, InOrder(state', tickets'), Owners(tickets'), prepared' = {}
    PROVE  BalanceInv'
  BY DEF BalanceInv, PreparedInv

LEMMA SameTickets ==
    ASSUME BalanceInv, Ready, UNCHANGED <<tickets, prepared>>, state' \in LedgerStates,
           state'.committed = state.committed, state'.reserved = state.reserved,
           state'.held = state.held, state'.booked = state.booked, state'.peaks = state.peaks,
           state'.poisoned = state.poisoned
    PROVE  BalanceInv' /\ Within
  <1>1. InOrder(state, tickets) /\ Owners(tickets) /\ tickets \in Tables /\ prepared' = {}
    BY DEF BalanceInv, Ready
  <1>2. InOrder(state', tickets)
    BY <1>1, SettingsChange
  <1>3. BalanceInv'
    BY <1>1, <1>2, Settled
  <1>4. state \in LedgerStates
    BY <1>1 DEF InOrder
  <1> QED
    BY <1>3, <1>4 DEF Within, LedgerStates

\* Attempts that fail, checkpoints, configuration.
LEMMA SettingsStep ==
    ASSUME BalanceInv,
           \/ \E b \in Sizes : ReserveFails(b)
           \/ \E p \in Points : Checkpoint(p)
           \/ Configure
    PROVE  BalanceInv' /\ Within
  <1>1. /\ state \in LedgerStates /\ Attempt(state) \in LedgerStates
        /\ Attempt(state).committed = state.committed /\ Attempt(state).reserved = state.reserved
        /\ Attempt(state).held = state.held /\ Attempt(state).booked = state.booked
        /\ Attempt(state).peaks = state.peaks /\ Attempt(state).poisoned = state.poisoned
    BY AttemptState DEF BalanceInv, InOrder
  <1>2. ASSUME NEW b \in Sizes, ReserveFails(b) PROVE BalanceInv' /\ Within
    <2>1. /\ Ready /\ UNCHANGED <<tickets, prepared>>
          /\ state' = Attempt(state) \/ state' = [Attempt(state) EXCEPT !.failAt = 0]
      BY <1>2 DEF ReserveFails, MayAttempt
    <2>2. /\ state' \in LedgerStates
          /\ state'.committed = state.committed /\ state'.reserved = state.reserved
          /\ state'.held = state.held /\ state'.booked = state.booked
          /\ state'.peaks = state.peaks /\ state'.poisoned = state.poisoned
      BY <1>1, <2>1 DEF LedgerStates
    <2> QED
      BY <2>1, <2>2, SameTickets
  <1>3. ASSUME NEW p \in Points, Checkpoint(p) PROVE BalanceInv' /\ Within
    <2>1. Ready /\ UNCHANGED <<tickets, prepared>> /\ state' = [state EXCEPT !.failOnce = None]
      BY <1>3 DEF Checkpoint
    <2>2. /\ state' \in LedgerStates
          /\ state'.committed = state.committed /\ state'.reserved = state.reserved
          /\ state'.held = state.held /\ state'.booked = state.booked
          /\ state'.peaks = state.peaks /\ state'.poisoned = state.poisoned
      BY <1>1, <2>1 DEF LedgerStates
    <2> QED
      BY <2>1, <2>2, SameTickets
  <1>4. ASSUME Configure PROVE BalanceInv' /\ Within
    <2>1. Ready /\ UNCHANGED <<tickets, prepared>>
      BY <1>4 DEF Configure
    <2>2. /\ state' \in LedgerStates
          /\ state'.committed = state.committed /\ state'.reserved = state.reserved
          /\ state'.held = state.held /\ state'.booked = state.booked
          /\ state'.peaks = state.peaks /\ state'.poisoned = state.poisoned
      <3>1. CASE \E l \in Limits : state' = [state EXCEPT !.limit = l]
        BY <1>1, <3>1, LedgerAssumption DEF LedgerStates
      <3>2. CASE \E p \in Points : state' = [state EXCEPT !.failOnce = p]
        BY <1>1, <3>2 DEF LedgerStates
      <3>3. CASE \E n \in state.nextOrdinal .. MaxOrdinal : state' = [state EXCEPT !.failAt = n]
        BY <1>1, <3>3, LedgerAssumption DEF LedgerStates
      <3> QED
        BY <1>4, <3>1, <3>2, <3>3 DEF Configure
    <2> QED
      BY <2>1, <2>2, SameTickets
  <1> QED
    BY <1>2, <1>3, <1>4

\* The bytes were set aside and are given back at once.
LEMMA ReserveVecFailsStep ==
    ASSUME BalanceInv, NEW b \in Sizes, NEW d \in Domains, NEW p \in Points,
           ReserveVecFails(b, d, p)
    PROVE  BalanceInv' /\ Within
  <1> DEFINE a == Attempt(state)
             q == Book(a, b, d)
             r == Unbook(q, b, d)
  <1>1. /\ Ready /\ UNCHANGED <<tickets, prepared>>
        /\ state' = IF r.failOnce = p THEN [r EXCEPT !.failOnce = None] ELSE r
    BY DEF ReserveVecFails, MayAttempt
  <1>2. state \in LedgerStates /\ InOrder(state, tickets) /\ b \in Nat /\ Balanced(state)
    BY LedgerAssumption, Zenon DEF BalanceInv, InOrder
  <1>3. /\ a \in LedgerStates /\ Balanced(a) /\ Accounts(a, tickets)
        /\ a.committed = state.committed /\ a.reserved = state.reserved
    BY <1>2, AttemptBalanced, Zenon DEF InOrder
  <1> HIDE DEF a
  <1>4. Changed(a, q, d, b, 0)
    BY <1>2, <1>3, BookState
  <1> HIDE DEF q
  <1>5. q \in LedgerStates /\ Balanced(q) /\ Covered(q) /\ b <= q.booked[d]
    BY <1>2, <1>3, <1>4, SMTT(30) DEF Changed, LedgerStates
  <1>6. Changed(q, r, d, -b, 0)
    BY <1>2, <1>5, UnbookState, Zenon
  <1> HIDE DEF r
  <1>7. /\ r \in LedgerStates /\ Balanced(r) /\ Covered(r)
        /\ r.booked = a.booked /\ r.held = a.held
        /\ r.reserved = a.reserved /\ r.committed = a.committed
    <2>1. /\ a.booked \in [Domains -> Nat] /\ a.held \in [Domains -> Nat]
          /\ a.reserved \in Nat /\ a.committed \in Nat
      BY <1>3 DEF LedgerStates
    <2>2. /\ q.booked = [a.booked EXCEPT ![d] = @ + b] /\ q.held = [a.held EXCEPT ![d] = @ + 0]
          /\ q.reserved = a.reserved + b /\ q.committed = a.committed + 0
      BY <1>4 DEF Changed
    <2>3. /\ r.booked = [q.booked EXCEPT ![d] = @ + (-b)] /\ r.held = [q.held EXCEPT ![d] = @ + 0]
          /\ r.reserved = q.reserved + (-b) /\ r.committed = q.committed + 0
          /\ r \in LedgerStates /\ Balanced(r) /\ Covered(r)
      BY <1>6 DEF Changed
    <2>4. r.booked = a.booked
      BY <1>2, <2>1, <2>2, <2>3, SMTT(30)
    <2>5. r.held = a.held
      BY <2>1, <2>2, <2>3, SMTT(30)
    <2> QED
      BY <1>2, <2>1, <2>2, <2>3, <2>4, <2>5, SMTT(30)
  <1>8. InOrder(r, tickets)
    BY <1>3, <1>7 DEF InOrder, Accounts
  <1>9. /\ state' \in LedgerStates
        /\ state'.committed = r.committed /\ state'.reserved = r.reserved
        /\ state'.held = r.held /\ state'.booked = r.booked
        /\ state'.peaks = r.peaks /\ state'.poisoned = r.poisoned
    BY <1>1, <1>7 DEF LedgerStates
  <1>10. InOrder(state', tickets)
    BY <1>8, <1>9, SettingsChange
  <1>11. BalanceInv'
    BY <1>1, <1>10, Settled DEF BalanceInv, Ready
  <1>12. state'.committed + state'.reserved <= state.committed + state.reserved
    BY <1>2, <1>3, <1>7, <1>9, SMTT(30) DEF LedgerStates
  <1> QED
    BY <1>2, <1>9, <1>11, <1>12, NotAbove

LEMMA ReserveStep ==
    ASSUME BalanceInv, tickets' \in Tables, NEW i \in Tickets, NEW b \in Sizes,
           NEW d \in Domains, NEW p \in Points \cup {None},
           Reserve(i, b, d, p)
    PROVE  BalanceInv' /\ Within
  <1>1. /\ tickets[i].at = None /\ prepared' = {} /\ Fits(b)
        /\ state' = Book(Attempt(state), b, d)
        /\ tickets' = [tickets EXCEPT ![i] = [at |-> "reservation", bytes |-> b, dom |-> d,
                                              token |-> External /\ b > 0]]
    BY DEF Reserve, MayAttempt, Ready
  <1>2. tickets \in Tables /\ InOrder(state, tickets) /\ Owners(tickets)
    BY Zenon DEF BalanceInv
  <1>3. /\ tickets'[i].at = "reservation" /\ tickets'[i].bytes = b /\ tickets'[i].dom = d
        /\ \A j \in Tickets \ {i} : tickets'[j] = tickets[j]
    BY <1>1, <1>2 DEF Tables
  <1>4. \A j \in Tickets \ {i} : Alike(tickets[j], tickets'[j])
    BY <1>3, Zenon DEF Alike
  <1>5. /\ InOrder(state', tickets')
        /\ state'.committed + state'.reserved = state.committed + state.reserved + b
    <2>1. state' = Book(Attempt(state), tickets'[i].bytes, tickets'[i].dom)
      BY <1>1, <1>3, Zenon
    <2> DEFINE r == Book(Attempt(state), tickets'[i].bytes, tickets'[i].dom)
    <2>2. tickets[i].at = None /\ tickets'[i].at = "reservation"
      BY <1>1, <1>3
    <2>3. /\ InOrder(r, tickets')
          /\ r.committed + r.reserved = state.committed + state.reserved + tickets'[i].bytes
      BY <1>2, <1>4, <2>2, Booking, Zenon
    <2> HIDE DEF r
    <2> QED
      BY <1>3, <2>1, <2>3, Zenon DEF r
  <1>6. "reservation" \notin Parts \cup Groups
    BY AtsApart DEF ChargeAts
  <1>7. Owners(tickets')
    BY <1>2, <1>3, <1>6, OwnersKept, SMTT(30)
  <1>8. Within
    BY <1>1, <1>5 DEF Within, Fits
  <1> QED
    BY <1>1, <1>5, <1>7, <1>8, Settled, Zenon

LEMMA DropReservationStep ==
    ASSUME BalanceInv, tickets' \in Tables, NEW i \in Tickets, DropReservation(i)
    PROVE  BalanceInv' /\ Within
  <1>1. /\ tickets[i].at = "reservation" /\ prepared' = {}
        /\ state' = Unbook(state, tickets[i].bytes, tickets[i].dom)
        /\ tickets' = [tickets EXCEPT ![i] = Free]
    BY DEF DropReservation, Ready
  <1>2. tickets \in Tables /\ InOrder(state, tickets) /\ Owners(tickets)
    BY DEF BalanceInv
  <1>3. tickets'[i].at = None /\ \A j \in Tickets \ {i} : tickets'[j] = tickets[j]
    BY <1>1, <1>2 DEF Tables, Free
  <1>4. \A j \in Tickets \ {i} : Alike(tickets[j], tickets'[j])
    BY <1>3 DEF Alike
  <1>5. /\ InOrder(state', tickets')
        /\ state'.committed + state'.reserved <= state.committed + state.reserved
    BY <1>1, <1>2, <1>3, <1>4, Unbooking, ZenonT(40)
  <1>6. None \notin Parts \cup Groups
    BY AtsApart DEF ChargeAts
  <1>7. Owners(tickets')
    BY <1>2, <1>3, <1>6, OwnersKept
  <1>8. Within
    BY <1>2, <1>5, NotAbove DEF InOrder
  <1> QED
    BY <1>1, <1>5, <1>7, <1>8, Settled

LEMMA CommitStep ==
    ASSUME BalanceInv, tickets' \in Tables, NEW i \in Tickets, NEW to \in {"charge", "detached"},
           CommitCharge(i, to)
    PROVE  BalanceInv' /\ Within
  <1>1. /\ tickets[i].at = "reservation" /\ prepared' = {}
        /\ state' = Committed(state, tickets[i].bytes, tickets[i].dom)
        /\ tickets' = [tickets EXCEPT ![i].at = to, ![i].token = @ /\ to = "charge"]
    BY DEF CommitCharge, Ready
  <1>2. tickets \in Tables /\ InOrder(state, tickets) /\ Owners(tickets)
    BY DEF BalanceInv
  <1>3. /\ tickets'[i].at = to /\ tickets'[i].bytes = tickets[i].bytes /\ tickets'[i].dom = tickets[i].dom
        /\ \A j \in Tickets \ {i} : tickets'[j] = tickets[j]
    BY <1>1, <1>2 DEF Tables
  <1>4. \A j \in Tickets \ {i} : Alike(tickets[j], tickets'[j])
    BY <1>3 DEF Alike
  <1>5. to \in ChargeAts /\ to \notin Parts \cup Groups
    BY LedgerAssumption DEF ChargeAts, Parts
  <1>6. /\ InOrder(state', tickets')
        /\ state'.committed + state'.reserved = state.committed + state.reserved
    <2>1. tickets'[i].at \in ChargeAts
      BY <1>3, <1>5
    <2> DEFINE r == Committed(state, tickets[i].bytes, tickets[i].dom)
    <2>2. /\ tickets[i].at = "reservation" /\ tickets'[i].bytes = tickets[i].bytes
          /\ tickets'[i].dom = tickets[i].dom
      BY <1>1, <1>3
    <2>3. InOrder(r, tickets') /\ r.committed + r.reserved = state.committed + state.reserved
      BY <1>2, <1>4, <2>1, <2>2, Committing, Zenon
    <2> HIDE DEF r
    <2> QED
      BY <1>1, <2>3 DEF r
  <1>7. Owners(tickets')
    BY <1>2, <1>3, <1>5, OwnersKept
  <1>8. Within
    BY <1>2, <1>6, NotAbove DEF InOrder, LedgerStates
  <1> QED
    BY <1>1, <1>6, <1>7, <1>8, Settled

\* DropAll refunds the bytes of the charges.
LEMMA RefundAllIs == \A s, S, d : RefundAll(s, S, d) = Refund(s, BytesIn(tickets, S), d)
  <1> SUFFICES ASSUME NEW s, NEW S, NEW d PROVE RefundAll(s, S, d) = Refund(s, BytesIn(tickets, S), d)
    OBVIOUS
  <1>1. BytesOf(S) = BytesIn(tickets, S)
    BY BytesOfIn
  <1> QED
    BY <1>1 DEF RefundAll, Refund

\* Charges of one domain are dropped while nothing is prepared; the others keep
\* their kind, their bytes and their domain.
LEMMA DropStep ==
    ASSUME BalanceInv, tickets' \in Tables, prepared' = {}, NEW d \in Domains,
           NEW R \in SUBSET ChargesIn(tickets, d), state' = Refund(state, BytesIn(tickets, R), d),
           \A j \in R : tickets'[j].at = None,
           \A j \in Tickets \ R : Alike(tickets[j], tickets'[j]),
           Owners(tickets')
    PROVE  BalanceInv' /\ Within
  <1> DEFINE r == Refund(state, BytesIn(tickets, R), d)
  <1>1. tickets \in Tables /\ InOrder(state, tickets)
    BY DEF BalanceInv
  <1>2. InOrder(r, tickets') /\ r.committed + r.reserved <= state.committed + state.reserved
    BY <1>1, Refunding, Zenon
  <1>3. r = state'
    OBVIOUS
  <1> HIDE DEF r
  <1>4. /\ InOrder(state', tickets')
        /\ state'.committed + state'.reserved <= state.committed + state.reserved
    BY <1>2, <1>3
  <1>5. Within
    BY <1>1, <1>4, NotAbove DEF InOrder
  <1> QED
    BY <1>4, <1>5, Settled

LEMMA OneChargeStep ==
    ASSUME BalanceInv, tickets' \in Tables, NEW i \in Tickets, DropCharge(i) \/ RefundDetached(i)
    PROVE  BalanceInv' /\ Within
  <1> DEFINE d == tickets[i].dom
  <1>1. tickets \in Tables /\ Owners(tickets)
    BY DEF BalanceInv
  <1>2. prepared' = {} /\ tickets' = [tickets EXCEPT ![i] = Free] /\ tickets[i].at \in {"charge", "detached"}
    BY DEF DropCharge, RefundDetached, Ready
  <1>3. state' = Refund(state, BytesIn(tickets, {i}), d)
    <2>1. CASE DropCharge(i)
      BY <2>1, RefundAllIs, Zenon DEF DropCharge, DropAll
    <2>2. CASE RefundDetached(i)
      <3>1. BytesIn(tickets, {i}) = tickets[i].bytes
        BY <1>1, Few
      <3> QED
        BY <2>2, <3>1 DEF RefundDetached
    <2> QED
      BY <2>1, <2>2
  <1>4. d \in Domains /\ {i} \in SUBSET ChargesIn(tickets, d)
    BY <1>1, <1>2 DEF Tables, ChargesIn, ChargeAts
  <1>5. tickets'[i].at = None /\ \A j \in Tickets \ {i} : tickets'[j] = tickets[j]
    BY <1>1, <1>2 DEF Tables, Free
  <1>6. (\A j \in {i} : tickets'[j].at = None) /\ \A j \in Tickets \ {i} : Alike(tickets[j], tickets'[j])
    BY <1>5 DEF Alike
  <1>7. None \notin Parts \cup Groups
    BY AtsApart DEF ChargeAts
  <1>8. Owners(tickets')
    BY <1>1, <1>5, <1>7, OwnersKept
  <1> HIDE DEF d
  <1> QED
    BY <1>2, <1>3, <1>4, <1>6, <1>8, DropStep, Zenon

LEMMA ReplaceStep ==
    ASSUME BalanceInv, tickets' \in Tables, NEW i \in Tickets, NEW p \in Parts, ReplacePart(i, p)
    PROVE  BalanceInv' /\ Within
  <1> DEFINE R == Owned({p})
  <1>1. tickets \in Tables /\ Owners(tickets)
    BY DEF BalanceInv
  <1>2. /\ prepared' = {} /\ tickets[i].at = "charge" /\ tickets[i].dom = "LuaHeap"
        /\ state' = RefundAll(state, R, "LuaHeap")
        /\ tickets' = [j \in Tickets |-> IF j = i THEN [tickets[i] EXCEPT !.at = p]
                                         ELSE IF j \in R THEN Free ELSE tickets[j]]
    BY DEF ReplacePart, DropAll, Ready
  <1>3. state' = Refund(state, BytesIn(tickets, R), "LuaHeap") /\ "LuaHeap" \in Domains
    BY <1>2, RefundAllIs DEF Domains
  <1>4. i \notin R /\ p \in ChargeAts /\ "charge" \in ChargeAts /\ p # "reservation"
    BY <1>2 DEF Owned, Parts, ChargeAts
  <1>5. R \in SUBSET ChargesIn(tickets, "LuaHeap")
    BY <1>1, <1>4 DEF Owned, ChargesIn, Owners
  <1>6. /\ tickets'[i].at = p /\ tickets'[i].bytes = tickets[i].bytes /\ tickets'[i].dom = "LuaHeap"
        /\ \A j \in R : tickets'[j].at = None
        /\ \A j \in Tickets \ (R \cup {i}) : tickets'[j] = tickets[j]
    BY <1>1, <1>2, <1>4 DEF Tables, Free, Owned
  <1>7. \A j \in Tickets \ R : Alike(tickets[j], tickets'[j])
    BY <1>2, <1>4, <1>6 DEF Alike
  <1>8. Owners(tickets')
    <2>1. None \notin Parts \cup Groups /\ p \notin Groups
      BY AtsApart, LedgerAssumption DEF ChargeAts
    <2>2. ASSUME NEW j \in Tickets, tickets'[j].at \in Parts PROVE tickets'[j].dom = "LuaHeap"
      BY <1>1, <1>6, <2>1, <2>2, Zenon DEF Owners
    <2>3. \A j \in Tickets : tickets'[j].at \in Groups => tickets'[j] = tickets[j]
      BY <1>6, <2>1, Zenon
    <2> QED
      BY <1>1, <2>2, <2>3 DEF Owners
  <1> HIDE DEF R
  <1> QED
    BY <1>2, <1>3, <1>5, <1>6, <1>7, <1>8, DropStep, Zenon

\* All charges of a container go.
LEMMA ContainerStep ==
    ASSUME BalanceInv, tickets' \in Tables, prepared' = {}, NEW d \in Domains,
           NEW P \in SUBSET (Parts \cup Groups), \A j \in Owned(P) : tickets[j].dom = d,
           state' = RefundAll(state, Owned(P), d),
           tickets' = [j \in Tickets |-> IF j \in Owned(P) THEN Free ELSE tickets[j]]
    PROVE  BalanceInv' /\ Within
  <1> DEFINE R == Owned(P)
  <1>1. tickets \in Tables /\ Owners(tickets)
    BY DEF BalanceInv
  <1>2. state' = Refund(state, BytesIn(tickets, R), d)
    BY RefundAllIs
  <1>3. R \in SUBSET ChargesIn(tickets, d)
    BY Zenon DEF Owned, ChargesIn, ChargeAts
  <1>4. (\A j \in R : tickets'[j].at = None) /\ \A j \in Tickets \ R : tickets'[j] = tickets[j]
    BY DEF Free, Owned
  <1>5. \A j \in Tickets \ R : Alike(tickets[j], tickets'[j])
    BY <1>4 DEF Alike
  <1>6. None \notin Parts \cup Groups
    BY AtsApart DEF ChargeAts
  <1> HIDE DEF R
  <1>7. Owners(tickets')
    BY <1>1, <1>4, <1>6, OwnersKept
  <1> QED
    BY <1>2, <1>3, <1>4, <1>5, <1>7, DropStep, Zenon

LEMMA ReleasePartsStep ==
    ASSUME BalanceInv, tickets' \in Tables, NEW P \in {{"second"}, Parts}, ReleaseParts(P)
    PROVE  BalanceInv' /\ Within
  <1>1. /\ prepared' = {} /\ state' = RefundAll(state, Owned(P), "LuaHeap")
        /\ tickets' = [j \in Tickets |-> IF j \in Owned(P) THEN Free ELSE tickets[j]]
    BY DEF ReleaseParts, DropAll, Ready
  <1>2. P \in SUBSET Parts
    BY DEF Parts
  <1>3. P \in SUBSET (Parts \cup Groups) /\ "LuaHeap" \in Domains
    BY <1>2 DEF Domains
  <1>4. \A j \in Owned(P) : tickets[j].dom = "LuaHeap"
    BY <1>2 DEF BalanceInv, Owners, Owned
  <1> QED
    BY <1>1, <1>3, <1>4, ContainerStep, Zenon

LEMMA ClearStep ==
    ASSUME BalanceInv, tickets' \in Tables, NEW g \in Groups, ClearCharges(g)
    PROVE  BalanceInv' /\ Within
  <1>1. /\ prepared' = {}
        /\ tickets' = [j \in Tickets |-> IF j \in Owned({g}) THEN Free ELSE tickets[j]]
    BY DEF ClearCharges, Ready
  <1>2. PICK i \in Owned({g}) : state' = RefundAll(state, Owned({g}), tickets[i].dom)
    BY DEF ClearCharges, DropAll
  <1>3. {g} \in SUBSET (Parts \cup Groups) /\ tickets[i].dom \in Domains
    BY DEF BalanceInv, Tables, Owned
  <1>4. \A j \in Owned({g}) : tickets[j].dom = tickets[i].dom
    BY DEF BalanceInv, Owners, Owned
  <1> QED
    BY <1>1, <1>2, <1>3, <1>4, ContainerStep, Zenon

\* Charges change owner; the ledger's state does not.
LEMMA MoveStep ==
    ASSUME BalanceInv, tickets' \in Tables, prepared' = {}, state' = state,
           \A j \in Tickets : Alike(tickets[j], tickets'[j]), Owners(tickets')
    PROVE  BalanceInv' /\ Within
  <1>1. tickets \in Tables /\ InOrder(state, tickets)
    BY DEF BalanceInv
  <1>2. InOrder(state, tickets')
    BY <1>1, NothingMoves
  <1>3. Within
    BY <1>1, NotAbove DEF InOrder, LedgerStates
  <1> QED
    BY <1>2, <1>3, Settled

LEMMA PushStep ==
    ASSUME BalanceInv, tickets' \in Tables, NEW i \in Tickets, NEW g \in Groups, TryPush(i, g)
    PROVE  BalanceInv' /\ Within
  <1>1. tickets \in Tables /\ Owners(tickets)
    BY DEF BalanceInv
  <1>2. /\ prepared' = {} /\ state' = state /\ tickets[i].at = "charge"
        /\ \A j \in Owned({g}) : tickets[j].dom = tickets[i].dom
        /\ tickets' = [tickets EXCEPT ![i].at = g]
    BY DEF TryPush, Ready
  <1>3. /\ tickets'[i].at = g /\ tickets'[i].bytes = tickets[i].bytes /\ tickets'[i].dom = tickets[i].dom
        /\ \A j \in Tickets \ {i} : tickets'[j] = tickets[j]
    BY <1>1, <1>2 DEF Tables
  <1>4. g \in ChargeAts /\ "charge" \in ChargeAts /\ g # "reservation" /\ g \notin Parts
    BY AtsApart, LedgerAssumption DEF ChargeAts
  <1>5. \A j \in Tickets : Alike(tickets[j], tickets'[j])
    BY <1>2, <1>3, <1>4 DEF Alike
  <1>6. Owners(tickets')
    BY <1>1, <1>2, <1>3, <1>4 DEF Owners, Owned
  <1> QED
    BY <1>2, <1>5, <1>6, MoveStep

LEMMA AbsorbStep ==
    ASSUME BalanceInv, tickets' \in Tables, NEW g \in Groups, NEW h \in Groups, TryAbsorb(g, h)
    PROVE  BalanceInv' /\ Within
  <1>1. tickets \in Tables /\ Owners(tickets)
    BY DEF BalanceInv
  <1>2. /\ prepared' = {} /\ state' = state
        /\ \A i \in Owned({g}), j \in Owned({h}) : tickets[i].dom = tickets[j].dom
        /\ tickets' = [j \in Tickets |-> IF j \in Owned({h}) THEN [tickets[j] EXCEPT !.at = g]
                                         ELSE tickets[j]]
    BY ZenonT(40) DEF TryAbsorb, Ready
  <1>3. /\ \A j \in Owned({h}) : /\ tickets[j].at = h /\ tickets'[j].at = g
                                 /\ tickets'[j].bytes = tickets[j].bytes /\ tickets'[j].dom = tickets[j].dom
        /\ \A j \in Tickets \ Owned({h}) : tickets'[j] = tickets[j]
    BY <1>1, <1>2 DEF Tables, Owned
  <1>4. g \in ChargeAts /\ h \in ChargeAts /\ g # "reservation" /\ h # "reservation" /\ g \notin Parts
    BY AtsApart, LedgerAssumption DEF ChargeAts
  <1>5. \A j \in Tickets : Alike(tickets[j], tickets'[j])
    BY <1>3, <1>4, ZenonT(40) DEF Alike
  <1>6. Owners(tickets')
    BY <1>1, <1>2, <1>3, <1>4, SMTT(30) DEF Owners, Owned
  <1> QED
    BY <1>2, <1>5, <1>6, MoveStep, Zenon

\* The state noted by the preparation is in order, and the excess is the group's
\* bytes less those of the charge to come.
LEMMA PrepareStep ==
    ASSUME BalanceInv, tickets' \in Tables, NEW i \in Tickets, NEW g \in Groups,
           NEW actual \in Sizes, PrepareNormalize(g, actual, i)
    PROVE  BalanceInv' /\ Within
  <1>1. tickets \in Tables /\ Owners(tickets) /\ InOrder(state, tickets) /\ actual \in Nat
    BY LedgerAssumption DEF BalanceInv
  <1>2. PICK e \in Owned({g}) :
           /\ prepared' = {[group |-> g, id |-> i, dom |-> tickets[e].dom,
                            excess |-> BytesOf(Owned({g})) - actual, before |-> state]}
           /\ tickets' = [tickets EXCEPT ![i] = [at |-> "pending", bytes |-> actual,
                                                 dom |-> tickets[e].dom, token |-> External]]
    BY ZenonT(40) DEF PrepareNormalize
  <1>3. tickets[i].at = None /\ actual < BytesOf(Owned({g})) /\ state' = state
    BY DEF PrepareNormalize
  <1>4. /\ tickets'[i].at = "pending" /\ tickets'[i].bytes = actual
        /\ tickets'[i].dom = tickets[e].dom
        /\ \A j \in Tickets \ {i} : tickets'[j] = tickets[j]
    BY <1>1, <1>2, Zenon DEF Tables
  <1>5. \A j \in Tickets : Alike(tickets[j], tickets'[j])
    BY <1>3, <1>4, AtsApart DEF Alike
  <1>6. InOrder(state', tickets')
    BY <1>1, <1>3, <1>5, NothingMoves
  <1>7. "pending" \notin Parts \cup Groups /\ None \notin Parts \cup Groups
    BY AtsApart DEF ChargeAts
  <1>8. Owners(tickets')
    BY <1>1, <1>4, <1>7, OwnersKept, SMTT(30)
  <1>9. Owned({g})' = Owned({g})
    BY <1>3, <1>4, <1>7 DEF Owned
  <1>10. BytesIn(tickets', Owned({g})) = BytesOf(Owned({g})) /\ BytesOf(Owned({g})) \in Nat
    <2> DEFINE S == Owned({g})
    <2>1. IsFiniteSet(S) /\ S \in SUBSET Tickets /\ i \notin S
      BY <1>3, <1>7, LedgerAssumption, FS_Subset DEF Owned
    <2>2. \A j \in S : tickets[j].bytes = tickets'[j].bytes /\ tickets[j].bytes \in Nat
      BY <1>1, <1>4, <2>1 DEF Tables
    <2>3. BytesOf(S) = BytesIn(tickets, S)
      BY BytesOfIn
    <2> HIDE DEF S
    <2>4. BytesIn(tickets, S) = BytesIn(tickets', S)
      BY Zenon, <2>1, <2>2, BytesSame
    <2>5. BytesIn(tickets, S) \in Nat
      BY Zenon, <2>1, <2>2, BytesRemove
    <2> QED
      BY <2>3, <2>4, <2>5, Zenon DEF S
  <1>11. PreparedInv'
    <2> SUFFICES ASSUME NEW p \in prepared'
                 PROVE  /\ p.group \in Groups /\ p.id \in Tickets /\ p.dom \in Domains /\ p.excess \in Nat
                        /\ tickets'[p.id].at = "pending" /\ tickets'[p.id].dom = p.dom
                        /\ \A j \in Owned({p.group})' : tickets'[j].dom = p.dom
                        /\ BytesIn(tickets', Owned({p.group})') = p.excess + tickets'[p.id].bytes
                        /\ InOrder(p.before, tickets')
                        /\ p.before.peaks = state'.peaks
                        /\ ~FrameRollback => p.before = state'
      BY ZenonT(40) DEF PreparedInv
    <2>1. /\ p.group = g /\ p.id = i /\ p.dom = tickets[e].dom /\ p.before = state
          /\ p.excess = BytesOf(Owned({g})) - actual
      BY <1>2, SMTT(30)
    <2>2. p.excess \in Nat /\ BytesIn(tickets', Owned({g})) = p.excess + tickets'[i].bytes
      BY <1>1, <1>3, <1>4, <1>10, <2>1, SMTT(30)
    <2>3. tickets[e].dom \in Domains /\ \A j \in Owned({g}) : tickets'[j].dom = tickets[e].dom
      BY <1>1, <1>4, ZenonT(40) DEF Tables, Owners, Owned
    <2> QED
      BY <1>3, <1>4, <1>6, <1>9, <2>1, <2>2, <2>3, Zenon
  <1>12. Within
    BY <1>1, <1>3, NotAbove, SMTT(30) DEF InOrder, LedgerStates
  <1> QED
    BY <1>6, <1>8, <1>11, <1>12 DEF BalanceInv

LEMMA CommitNormalizeStep ==
    ASSUME BalanceInv, tickets' \in Tables, CommitNormalize
    PROVE  BalanceInv' /\ Within
  <1>1. tickets \in Tables /\ Owners(tickets) /\ InOrder(state, tickets)
    BY Zenon DEF BalanceInv
  <1>2. PICK p \in prepared :
           /\ state' = [p.before EXCEPT !.peaks = state.peaks, !.committed = @ - p.excess,
                                        !.held[p.dom] = @ - p.excess]
           /\ tickets' = [j \in Tickets |->
                            IF j = p.id THEN [tickets[j] EXCEPT !.at = p.group]
                            ELSE IF j \in Owned({p.group}) THEN Free ELSE tickets[j]]
    BY Zenon DEF CommitNormalize
  <1>3. prepared' = {}
    BY DEF CommitNormalize
  <1>4. /\ p.group \in Groups /\ p.id \in Tickets /\ p.dom \in Domains /\ p.excess \in Nat
        /\ tickets[p.id].at = "pending" /\ tickets[p.id].dom = p.dom
        /\ \A j \in Owned({p.group}) : tickets[j].dom = p.dom
        /\ BytesIn(tickets, Owned({p.group})) = p.excess + tickets[p.id].bytes
        /\ InOrder(p.before, tickets)
        /\ p.before.peaks = state.peaks
        /\ ~FrameRollback => p.before = state
    BY <1>2 DEF BalanceInv, PreparedInv
  <1>5. PICK s, g, k, d, excess : s = p.before /\ g = p.group /\ k = p.id /\ d = p.dom /\ excess = p.excess
    OBVIOUS
  <1> DEFINE R == Owned({g})
             r == Less(s, excess, d)
  <1>6. s \in LedgerStates /\ s.peaks = state.peaks
    BY <1>4, <1>5 DEF InOrder
  <1>7. state' = r
    BY <1>2, <1>5, <1>6, ZenonT(40) DEF LedgerStates, Less
  <1>8. /\ g \in Groups /\ g \in ChargeAts /\ g \notin Parts /\ g # "pending"
        /\ None \notin Parts \cup Groups
    BY <1>4, <1>5, AtsApart, LedgerAssumption DEF ChargeAts
  <1>9. k \notin R /\ R \in SUBSET ChargesIn(tickets, d)
    BY <1>4, <1>5, <1>8 DEF Owned, ChargesIn
  <1>10. /\ tickets'[k].at = g /\ tickets'[k].bytes = tickets[k].bytes /\ tickets'[k].dom = d
         /\ \A j \in R : tickets'[j].at = None
         /\ \A j \in Tickets \ (R \cup {k}) : tickets'[j] = tickets[j]
    BY <1>1, <1>2, <1>4, <1>5, <1>9, ZenonT(40) DEF Tables, Owned, Free
  <1>11. \A j \in Tickets \ (R \cup {k}) : Alike(tickets[j], tickets'[j])
    BY <1>10, Zenon DEF Alike
  <1>12. BytesIn(tickets, R) = excess + tickets[k].bytes
    BY <1>4, <1>5, BytesOfIn, ZenonT(40)
  <1>13. Owners(tickets')
    <2>1. \A j \in Tickets : tickets'[j].at \in Parts => tickets'[j] = tickets[j]
      BY <1>8, <1>10, Zenon
    <2>2. \A j \in Tickets : tickets'[j].at \in Groups /\ j # k =>
                               tickets'[j] = tickets[j] /\ tickets'[j].at # g
      BY <1>8, <1>10, ZenonT(40) DEF Owned
    <2> QED
      BY <1>1, <1>10, <2>1, <2>2, SMTT(30) DEF Owners
  <1> HIDE DEF R
  <1>14. InOrder(r, tickets') /\ r.committed + r.reserved <= s.committed + s.reserved
    <2>1. /\ d \in Domains /\ k \in Tickets /\ excess \in Nat /\ InOrder(s, tickets)
          /\ tickets[k].at = "pending" /\ tickets'[k].at \in ChargeAts
          /\ tickets'[k].bytes = tickets[k].bytes /\ tickets'[k].dom = d
          /\ \A j \in R : tickets'[j].at = None
      BY <1>4, <1>5, <1>8, <1>10
    <2> QED
      BY <1>1, <1>9, <1>11, <1>12, <2>1, Normalizing, ZenonT(40)
  <1> HIDE DEF r
  <1>15. InOrder(state', tickets') /\ (s = state => Within)
    BY <1>1, <1>6, <1>7, <1>14, NotAbove, ZenonT(40) DEF InOrder
  <1>16. Within
    BY <1>4, <1>5, <1>15 DEF Within
  <1> QED
    BY <1>3, <1>13, <1>15, <1>16, Settled

LEMMA ReclaimStep ==
    ASSUME BalanceInv, tickets' \in Tables, NEW i \in Tickets, ReclaimUpvalue(i)
    PROVE  BalanceInv' /\ Within
  <1>1. tickets \in Tables /\ Owners(tickets) /\ InOrder(state, tickets)
    BY DEF BalanceInv
  <1>2. PICK d \in Domains : d = tickets[i].dom
    BY <1>1 DEF Tables
  <1>3. /\ FrameRollback /\ tickets[i].at = "charge"
        /\ prepared' = prepared /\ tickets' = [tickets EXCEPT ![i] = Free]
        /\ state' = Refund(state, BytesIn(tickets, {i}), d)
    BY <1>2, RefundAllIs DEF ReclaimUpvalue, DropAll
  <1>4. d \in Domains /\ {i} \in SUBSET ChargesIn(tickets, d)
    BY <1>2, <1>3, ZenonT(40) DEF ChargesIn, ChargeAts
  <1>5. tickets'[i].at = None /\ \A j \in Tickets \ {i} : tickets'[j] = tickets[j]
    BY <1>1, <1>3, Zenon DEF Tables, Free
  <1>6. (\A j \in {i} : tickets'[j].at = None) /\ \A j \in Tickets \ {i} : Alike(tickets[j], tickets'[j])
    BY <1>5 DEF Alike
  <1>7. None \notin Parts \cup Groups /\ "charge" \notin Parts \cup Groups
    BY AtsApart, LedgerAssumption DEF ChargeAts, Parts
  <1>8. Owners(tickets')
    BY <1>1, <1>5, <1>7, OwnersKept, Zenon
  <1>9. InOrder(state', tickets') /\ state'.peaks = state.peaks
    <2> DEFINE r == Refund(state, BytesIn(tickets, {i}), d)
    <2>1. InOrder(r, tickets') /\ r.peaks = state.peaks
      BY <1>1, <1>4, <1>6, Refunding, ZenonT(40)
    <2>2. r = state'
      BY <1>3
    <2> HIDE DEF r
    <2> QED
      BY <2>1, <2>2
  <1>10. tickets[i].at \in ChargeAts /\ tickets'[i].at = None
    BY <1>3, <1>5 DEF ChargeAts
  <1>11. ASSUME NEW p \in prepared
        PROVE  /\ p.group \in Groups /\ p.id \in Tickets /\ p.dom \in Domains /\ p.excess \in Nat
               /\ tickets'[p.id].at = "pending" /\ tickets'[p.id].dom = p.dom
               /\ \A j \in Owned({p.group})' : tickets'[j].dom = p.dom
               /\ BytesIn(tickets', Owned({p.group})') = p.excess + tickets'[p.id].bytes
               /\ InOrder(p.before, tickets')
               /\ p.before.peaks = state'.peaks
    <2>1. /\ p.group \in Groups /\ p.id \in Tickets /\ p.dom \in Domains /\ p.excess \in Nat
          /\ tickets[p.id].at = "pending" /\ tickets[p.id].dom = p.dom
          /\ \A j \in Owned({p.group}) : tickets[j].dom = p.dom
          /\ BytesIn(tickets, Owned({p.group})) = p.excess + tickets[p.id].bytes
          /\ InOrder(p.before, tickets)
          /\ p.before.peaks = state.peaks
      BY ZenonT(40) DEF BalanceInv, PreparedInv
    <2>2. tickets'[p.id] = tickets[p.id]
      BY <1>3, <1>5, <2>1
    <2>3. PICK S : S = Owned({p.group})
      OBVIOUS
    <2>4. Owned({p.group})' = S /\ i \notin S /\ S \in SUBSET Tickets
      BY <1>3, <1>5, <1>7, <2>1, <2>3, ZenonT(40) DEF Owned
    <2>5. BytesIn(tickets, S) = BytesIn(tickets', S)
      BY <1>5, <2>4, LedgerAssumption, FS_Subset, BytesSame, SMTT(30)
    <2>6. InOrder(p.before, tickets')
      <3>1. FrameRollback /\ InOrder(p.before, tickets)
        BY <1>3, <2>1, ZenonT(40)
      <3> QED
        BY <1>1, <1>6, <1>10, <3>1, Overcounted, Zenon
    <2> QED
      BY <1>5, <1>9, <2>1, <2>2, <2>3, <2>4, <2>5, <2>6, ZenonT(40)
  <1>12. PreparedInv'
    BY <1>3, <1>11, ZenonT(40) DEF PreparedInv
  <1>13. Within
    BY <1>3 DEF Within
  <1> QED
    BY <1>8, <1>9, <1>12, <1>13 DEF BalanceInv

LEMMA AbandonStep ==
    ASSUME BalanceInv, tickets' \in Tables, AbandonNormalize
    PROVE  BalanceInv' /\ Within
  <1>1. tickets \in Tables /\ Owners(tickets) /\ InOrder(state, tickets)
    BY DEF BalanceInv
  <1>2. PICK p \in prepared : tickets' = [tickets EXCEPT ![p.id] = Free]
    BY Zenon DEF AbandonNormalize
  <1>3. prepared' = {} /\ state' = state
    BY DEF AbandonNormalize
  <1>4. PICK k \in Tickets : k = p.id /\ tickets[k].at = "pending"
    BY ZenonT(40) DEF BalanceInv, PreparedInv
  <1>5. tickets'[k].at = None /\ \A j \in Tickets \ {k} : tickets'[j] = tickets[j]
    BY <1>1, <1>2, <1>4 DEF Tables, Free
  <1>6. \A j \in Tickets : Alike(tickets[j], tickets'[j])
    BY <1>4, <1>5, AtsApart DEF Alike
  <1>7. None \notin Parts \cup Groups
    BY AtsApart DEF ChargeAts
  <1>8. Owners(tickets')
    BY <1>1, <1>5, <1>7, OwnersKept, Zenon
  <1> QED
    BY <1>3, <1>6, <1>8, MoveStep

-----------------------------------------------------------------------------
(* Balances: the invariant is inductive, and what follows.                 *)

LEMMA BalanceInit == Init => BalanceInv
  <1> SUFFICES ASSUME Init PROVE BalanceInv
    OBVIOUS
  <1>1. tickets = [i \in Tickets |-> Free] /\ prepared = {}
    BY DEF Init
  <1>2. /\ state.committed = 0 /\ state.reserved = 0 /\ state.held = [d \in Domains |-> 0]
        /\ state.booked = [d \in Domains |-> 0] /\ ~state.poisoned
        /\ state.peaks = [committed |-> 0, outstanding |-> 0, held |-> [d \in Domains |-> 0]]
        /\ state \in LedgerStates
    <2> DEFINE Z == [d \in Domains |-> 0]
    <2>1. PICK l \in Limits :
             state = [limit |-> l, committed |-> 0, reserved |-> 0, held |-> Z, booked |-> Z,
                      peaks |-> [committed |-> 0, outstanding |-> 0, held |-> Z],
                      poisoned |-> FALSE, nextOrdinal |-> 1, failOnce |-> None, failAt |-> 0]
      BY Zenon DEF Init
    <2>2. Z \in [Domains -> Nat] /\ l \in Nat
      BY LedgerAssumption
    <2> HIDE DEF Z
    <2>3. /\ state.committed = 0 /\ state.reserved = 0 /\ state.held = Z /\ state.booked = Z
          /\ state.peaks = [committed |-> 0, outstanding |-> 0, held |-> Z]
      BY <2>1
    <2>4. ~state.poisoned
      BY <2>1
    <2>5. state \in LedgerStates
      <3>1. [committed |-> 0, outstanding |-> 0, held |-> Z]
              \in [committed : Nat, outstanding : Nat, held : [Domains -> Nat]]
        BY <2>2
      <3> DEFINE P == [committed |-> 0, outstanding |-> 0, held |-> Z]
      <3> HIDE DEF P
      <3> QED
        BY <2>1, <2>2, <3>1 DEF LedgerStates, P
    <2> QED
      BY <2>3, <2>4, <2>5 DEF Z
  <1>3. tickets \in Tables
    BY <1>1, FreeOK DEF Tables
  <1>4. \A i \in Tickets : tickets[i].at = None
    BY <1>1 DEF Free
  <1>5. \A d \in Domains : ReservationsIn(tickets, d) = {} /\ ChargesIn(tickets, d) = {}
    BY <1>4, AtsApart, ZenonT(40) DEF ReservationsIn, ChargesIn
  <1>6. Accounts(state, tickets)
    BY <1>2, <1>3, <1>5, Few, SMTT(30) DEF Accounts
  <1>7. Balanced(state) /\ Covered(state)
    BY <1>2 DEF Balanced, Covered, Domains
  <1>8. Owners(tickets)
    <2>1. None \notin Parts \cup Groups
      BY AtsApart DEF ChargeAts
    <2> QED
      BY <1>4, <2>1 DEF Owners
  <1>9. PreparedInv
    BY <1>1 DEF PreparedInv
  <1> QED
    BY <1>2, <1>3, <1>6, <1>7, <1>8, <1>9, ZenonT(40) DEF BalanceInv, InOrder

LEMMA BalanceOneTicket ==
    ASSUME BalanceInv, tickets' \in Tables, NEW i \in Tickets, OneTicket(i)
    PROVE  BalanceInv' /\ Within
  <1>1. CASE \E b \in Sizes, d \in Domains, p \in Points \cup {None} : Reserve(i, b, d, p)
    BY <1>1, ReserveStep
  <1>2. CASE DropReservation(i)
    BY <1>2, DropReservationStep
  <1>3. CASE \E to \in {"charge", "detached"} : CommitCharge(i, to)
    BY <1>3, CommitStep
  <1>4. CASE DropCharge(i) \/ RefundDetached(i)
    BY <1>4, OneChargeStep
  <1>5. CASE \E p \in Parts : ReplacePart(i, p)
    BY <1>5, ReplaceStep
  <1>6. CASE \E g \in Groups : TryPush(i, g)
    BY <1>6, PushStep
  <1>7. CASE \E g \in Groups, actual \in Sizes : PrepareNormalize(g, actual, i)
    BY <1>7, PrepareStep
  <1>8. CASE ReclaimUpvalue(i)
    BY <1>8, ReclaimStep
  <1> QED
    BY <1>1, <1>2, <1>3, <1>4, <1>5, <1>6, <1>7, <1>8 DEF OneTicket

\* Every step keeps the balances, and raises what is outstanding only within the
\* quota.
LEMMA BalanceStep ==
    ASSUME BalanceInv, TokenInv, [Next]_vars
    PROVE  BalanceInv' /\ Within
  <1>1. tickets' \in Tables
    BY TokenStep DEF TokenInv, TicketsOK
  <1>2. CASE UNCHANGED vars
    <2>1. BalanceInv'
      BY <1>2 DEF BalanceInv, PreparedInv, vars, Owned
    <2>2. Within
      BY <1>2, NotAbove DEF BalanceInv, InOrder, LedgerStates, vars
    <2> QED
      BY <2>1, <2>2, Zenon
  <1>3. CASE \/ \E b \in Sizes : ReserveFails(b)
             \/ \E p \in Points : Checkpoint(p)
             \/ Configure
    BY <1>3, SettingsStep
  <1>4. CASE \E b \in Sizes, d \in Domains, p \in Points : ReserveVecFails(b, d, p)
    BY <1>4, ReserveVecFailsStep
  <1>5. CASE \E i \in Tickets : OneTicket(i)
    BY <1>1, <1>5, BalanceOneTicket
  <1>6. CASE \E P \in {{"second"}, Parts} : ReleaseParts(P)
    BY <1>1, <1>6, ReleasePartsStep
  <1>7. CASE \E g, h \in Groups : TryAbsorb(g, h)
    BY <1>1, <1>7, AbsorbStep
  <1>8. CASE \E g \in Groups : ClearCharges(g)
    BY <1>1, <1>8, ClearStep
  <1>9. CASE CommitNormalize \/ AbandonNormalize
    BY <1>1, <1>9, CommitNormalizeStep, AbandonStep
  <1> QED
    BY <1>2, <1>3, <1>4, <1>5, <1>6, <1>7, <1>8, <1>9, ZenonT(40) DEF Next

LEMMA BalanceInvariant == Spec => [](BalanceInv /\ TokenInv)
  <1>1. BalanceInv /\ TokenInv /\ [Next]_vars => (BalanceInv /\ TokenInv)'
    BY BalanceStep, TokenStep
  <1> QED
    BY <1>1, BalanceInit, TokenInit, PTL DEF Spec

\* The sets the properties sum over are those of the invariant.
LEMMA SameSets ==
    ASSUME NEW d \in Domains
    PROVE  /\ BytesOf(Reservations(d)) = BytesIn(tickets, ReservationsIn(tickets, d))
           /\ BytesOf(Charges(d)) = BytesIn(tickets, ChargesIn(tickets, d))
  <1>1. Reservations(d) = ReservationsIn(tickets, d) /\ Charges(d) = ChargesIn(tickets, d)
    BY DEF Reservations, Charges, Owned, ReservationsIn, ChargesIn, ChargeAts
  <1> QED
    BY <1>1, BytesOfIn

\* The ledger never believes in less than is allocated, its reservations are
\* exact, and it is never poisoned, even when frames roll back.
THEOREM LedgerNeverUndercounts == Spec => []NeverUndercounts
  <1>1. BalanceInv => NeverUndercounts
    BY SameSets DEF BalanceInv, InOrder, Balanced, Accounts, NeverUndercounts
  <1> QED
    BY <1>1, BalanceInvariant, PTL

\* Where no caller lets charges go during a normalization, every balance is what
\* the tickets add up to.
THEOREM LedgerConserves == ASSUME ~FrameRollback PROVE Spec => []Conserved
  <1>1. BalanceInv => Conserved
    BY SameSets, Zenon DEF BalanceInv, InOrder, Balanced, Accounts, Conserved
  <1> QED
    BY <1>1, BalanceInvariant, PTL

\* The peaks cover the balances, also those a normalization writes back.
THEOREM PeaksAlwaysCover == Spec => []PeaksCover
  <1>1. BalanceInv => PeaksCover
    BY DEF BalanceInv, InOrder, Covered, PeaksCover
  <1> QED
    BY <1>1, BalanceInvariant, PTL

\* No step takes what is outstanding over the quota.
THEOREM QuotaIsRespected == ASSUME ~FrameRollback PROVE Spec => LimitRespected
  <1>1. BalanceInv /\ TokenInv /\ [Next]_vars =>
           [state'.committed + state'.reserved > state.committed + state.reserved
              => state'.committed + state'.reserved <= state.limit]_vars
    BY BalanceStep DEF Within
  <1> QED
    BY <1>1, BalanceInvariant, PTL DEF Spec, LimitRespected

=============================================================================
