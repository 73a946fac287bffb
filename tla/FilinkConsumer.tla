--------------------------- MODULE FilinkConsumer ---------------------------
(***************************************************************************)
(* on-chain/contracts/FilinkConsumer.sol: the price of a Filecoin deal is  *)
(* requested from a Chainlink node, which answers later, in any order, or  *)
(* never.  A request is paid for with the contract's LINK; without LINK it *)
(* reverts, and the transaction that made it with it.                      *)
(*                                                                         *)
(* Deal ids and networks are strings.  The price table is indexed by their *)
(* concatenation in some places and by the bare deal id in others.         *)
(***************************************************************************)
EXTENDS Integers, Sequences

CONSTANTS
    Deals, Networks,
    Prices,      \* answers of the Chainlink node
    Link         \* LINK of the contract at first, in fees of a request

ASSUME FilinkAssumption ==
    /\ Prices \subseteq Nat /\ Link \in Nat
    /\ Deals \cap (Deals \X Networks) = {}

VARIABLES
    mapDealPrice,
    requests,    \* requests sent: mapRequestDeal, and whether the answer is still due
    link         \* LINK left

filink == <<mapDealPrice, requests, link>>

Concatenate(deal, network) == <<deal, network>>
DealKeys == Deals \X Networks
Keys == DealKeys \cup Deals      \* the strings the tables are indexed with

FilinkInit ==
    /\ mapDealPrice = [k \in Keys |-> 0]
    /\ requests = <<>>
    /\ link = Link

\* Mutant: a request without LINK to pay for it.
RequestWithoutLink(deal, network) ==
    /\ mapDealPrice[deal] = 0
    /\ link' = link - 1
    /\ requests' = Append(requests, [key |-> Concatenate(deal, network), due |-> TRUE])
    /\ UNCHANGED mapDealPrice

\* Public: the oracle calls it, and anybody may.
RequestDealInfo(deal, network) ==
    /\ mapDealPrice[deal] = 0
    /\ link > 0
    /\ link' = link - 1
    /\ requests' = Append(requests, [key |-> Concatenate(deal, network), due |-> TRUE])
    /\ UNCHANGED mapDealPrice

Fulfill(id, price) ==
    /\ id \in DOMAIN requests
    /\ requests[id].due
    /\ requests' = [requests EXCEPT ![id].due = FALSE]
    /\ mapDealPrice' = [mapDealPrice EXCEPT ![requests[id].key] = price]
    /\ UNCHANGED link

GetPrice(deal, network) == mapDealPrice[Concatenate(deal, network)]

FilinkTypeOK ==
    /\ mapDealPrice \in [Keys -> Nat]
    /\ requests \in Seq([key : DealKeys, due : BOOLEAN])
    /\ link \in 0 .. Link
=============================================================================
