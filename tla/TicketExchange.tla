--------------------------- MODULE TicketExchange ---------------------------
(***************************************************************************)
(* What the marketplace promises, without contracts: tickets have holders, *)
(* people have money and publish offers, and now and then a set of open    *)
(* offers is fulfilled at once.  Everybody in it gives exactly what the    *)
(* offer names, gets a set of tickets the offer asks for, pays no more     *)
(* than its limit, and nobody else is touched.  There is no escrow and no  *)
(* order among tickets here: what somebody gets is a set.                  *)
(***************************************************************************)
EXTENDS Integers, FiniteSets, Functions

CONSTANTS
    User, EscrowAddr, NoOne,    \* people, and addresses that are nobody's
    Ticket, Place, Intent, NetPayment

VARIABLES
    holder,    \* ticket -> whose it is: NoOne before its issue
    place,     \* ticket -> the place it is for
    used,      \* tickets that have opened the gate
    cash,      \* user -> money
    offer,     \* intent -> NONE, LIVE, REVOKED or SETTLED
    clock

vars == <<holder, place, used, cash, offer, clock>>
ticketOnly == <<used, cash, offer, clock>>

Init ==
    /\ holder = [t \in Ticket |-> NoOne]
    /\ place \in [Ticket -> Place]
    /\ used = {}
    /\ cash \in [User -> Nat]
    /\ offer = [i \in Intent |-> "NONE"]
    /\ clock = 0

Issue ==
    /\ \E t \in Ticket, a \in User \cup {EscrowAddr} :
        /\ holder[t] = NoOne
        /\ holder' = [holder EXCEPT ![t] = a]
        /\ place'[t] \in Place
        /\ place' = [place EXCEPT ![t] = place'[t]]
    /\ UNCHANGED ticketOnly

\* A ticket changes hands because its holder hands it over.
Give ==
    /\ \E t \in Ticket, a \in User \cup {EscrowAddr} :
        /\ holder[t] \in User
        /\ holder' = [holder EXCEPT ![t] = a]
    /\ UNCHANGED <<place, ticketOnly>>

Use ==
    /\ \E t \in Ticket : holder[t] \in User /\ t \notin used /\ used' = used \cup {t}
    /\ UNCHANGED <<holder, place, cash, offer, clock>>

\* Somebody pays somebody, or pays an address nobody gets it back from.
Pay ==
    /\ \E u \in User :
        /\ cash'[u] \in 0 .. cash[u]
        /\ \/ cash' = [cash EXCEPT ![u] = cash'[u]]
           \/ \E v \in User \ {u} :
                cash' = [cash EXCEPT ![u] = cash'[u], ![v] = @ + cash[u] - cash'[u]]
    /\ UNCHANGED <<holder, place, used, offer, clock>>

OfferStep ==
    /\ \E i \in Intent :
        \/ offer[i] = "NONE" /\ offer' = [offer EXCEPT ![i] = "LIVE"]
        \/ offer[i] = "LIVE" /\ offer' = [offer EXCEPT ![i] = "REVOKED"]
    /\ UNCHANGED <<holder, place, used, cash, clock>>

Pass == clock' = clock + 1 /\ UNCHANGED <<holder, place, used, cash, offer>>

Gives(i) == Range(i.offered)

\* A set of tickets an offer asks for.
AsksFor(i, T) ==
    /\ Cardinality(T) = i.exactCount
    /\ \A t \in T :
        /\ place[t].eventId = i.eventId
        /\ place[t].session \in i.sessionMask
        /\ place[t].section \in i.sectionMask
    /\ i.mustShareSession => \A s, t \in T : place[s].session = place[t].session
    /\ i.mustShareSection => \A s, t \in T : place[s].section = place[t].section
    /\ i.mustBeAdjacent /\ T # {} =>
        \E first \in T :
            {place[t] : t \in T} =
                {[place[first] EXCEPT !.seat = @ + n] : n \in 0 .. Cardinality(T) - 1}

\* What an owner gets when several of its offers are fulfilled together is the
\* union of the deals, and what it pays is the sum.
Fulfil(P) ==
    /\ P # {}
    /\ offer' = [i \in Intent |-> IF i \in P THEN "SETTLED" ELSE offer[i]]
    /\ \A i \in P :
        /\ clock <= i.deadline
        /\ \A t \in Gives(i) : t \in Ticket /\ holder[t] = i.owner /\ t \notin used
    /\ \A i, k \in P : i # k => Gives(i) \cap Gives(k) = {}
    /\ \E deal \in [P -> SUBSET UNION {Gives(i) : i \in P}] :
        /\ \A i \in P : AsksFor(i, deal[i])
        /\ \A i, k \in P : i # k => deal[i] \cap deal[k] = {}
        /\ UNION {deal[i] : i \in P} = UNION {Gives(i) : i \in P}
        /\ \A t \in Ticket :
            \/ \E i \in P : t \in deal[i] /\ holder'[t] = i.owner
            \/ t \notin UNION {deal[i] : i \in P} /\ holder'[t] = holder[t]
    /\ \E pays \in [P -> NetPayment] :
        /\ \A i \in P : pays[i] <= i.maxNetPay
        /\ SumFunctionOnSet(pays, P) = 0
        /\ \A u \in User :
            /\ cash'[u] = cash[u] - SumFunctionOnSet(pays, {i \in P : i.owner = u})
            /\ cash'[u] >= 0
    /\ UNCHANGED <<place, used, clock>>

Exchange == Fulfil({i \in Intent : offer[i] = "LIVE" /\ offer'[i] = "SETTLED"})

Next == Issue \/ Give \/ Use \/ Pay \/ OfferStep \/ Pass \/ Exchange

Spec == Init /\ [][Next]_vars

=============================================================================
