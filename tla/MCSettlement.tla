---------------------------- MODULE MCSettlement ----------------------------
(***************************************************************************)
(* An instance of Settlement for TLC: custody and exchange.                *)
(* Two tickets, an offer and its replacement under one nonce, which takes  *)
(* in a ticket its author may only come to hold, and a counter-offer.      *)
(***************************************************************************)
EXTENDS Settlement

CONSTANTS alice, bob

\* An intent for n tickets of event 1 in the given sections, for no more money.
Wish(owner, offered, sections, n, nonce) ==
    [owner |-> owner, offered |-> offered, eventId |-> 1,
     sessionMask |-> {0}, sectionMask |-> sections, exactCount |-> n,
     mustShareSession |-> FALSE, mustShareSection |-> FALSE, mustBeAdjacent |-> FALSE,
     maxNetPay |-> 0, deadline |-> 1, nonce |-> nonce]

OneSeat == {[eventId |-> 1, session |-> 0, section |-> 0, row |-> 0, seat |-> 1]}
BobsFunds == [u \in {alice, bob} |-> IF u = bob THEN 1 ELSE 0]
SwapIntents == {Wish(alice, <<0>>, {0, 1}, 1, 1),
                Wish(alice, <<0, 1>>, {0, 1}, 2, 1),
                Wish(bob, <<1>>, {0}, 1, 1)}

=============================================================================
