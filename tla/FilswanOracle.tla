--------------------------- MODULE FilswanOracle ---------------------------
(***************************************************************************)
(* on-chain/contracts/FilswanOracle.sol: members of the DAO sign that the  *)
(* cids of a car file are stored by a Filecoin deal.  The signature with   *)
(* which the votes for a deal, a recipient and a cid list become equal to  *)
(* the threshold records the list and requests the deal's price.           *)
(*                                                                         *)
(* A vote is counted under the hash of a function signature and the        *)
(* arguments, modelled as the tuple that is hashed.  signCarTransaction and*)
(* isCarPaymentAvailable hash two different signatures.                    *)
(*                                                                         *)
(* _daoLists is written by setDAOUsers and read by the view                *)
(* getSignatureList only; it, the times in a signature, and its fields that*)
(* are never written are left out.                                         *)
(***************************************************************************)
EXTENDS FilinkConsumer, FiniteSets

CONSTANTS
    Members,      \* accounts that may ever be in the DAO
    DaoUsers,     \* arguments of setDAOUsers
    Thresholds,   \* the thresholds the admin sets
    Recipients,
    CarLists,     \* cid lists of car files
    EmptyList

ASSUME OracleAssumption ==
    /\ IsFiniteSet(Members) /\ DaoUsers \subseteq SUBSET Members
    /\ Thresholds \subseteq Nat
    /\ EmptyList \notin CarLists /\ Recipients # {}

VARIABLES
    threshold,
    filinkSet,    \* _filinkAddress is not the zero address
    daoRole,      \* accounts with DAO_ROLE
    txInfoMap,    \* signatures by deal and member
    txVoteMap,
    cidListMap

dao == <<threshold, filinkSet, daoRole>>
oracleVars == <<filink, dao, txInfoMap, txVoteMap, cidListMap>>

MaxUint8 == 255

Lists == CarLists \cup {EmptyList}
Signed == "f(string, string,address,string[])"
Asked == "f(string,string,address,string[])"
VoteKeys == {Signed, Asked} \X Deals \X Networks \X Recipients \X Lists

TxOracleInfo == [flag : BOOLEAN, recipient : Recipients, cidList : Lists]
NoSignature == [flag |-> FALSE, recipient |-> CHOOSE r \in Recipients : TRUE, cidList |-> EmptyList]

OracleInit ==
    /\ FilinkInit
    /\ threshold \in Thresholds
    /\ filinkSet = FALSE
    /\ daoRole = {}
    /\ txInfoMap = [k \in DealKeys |-> [m \in Members |-> NoSignature]]
    /\ txVoteMap = [v \in VoteKeys |-> 0]
    /\ cidListMap = [k \in Keys |-> EmptyList]

UpdateThreshold(t) ==
    /\ threshold' = t
    /\ UNCHANGED <<filink, filinkSet, daoRole, txInfoMap, txVoteMap, cidListMap>>

SetFilinkOracle(isSet) ==
    /\ filinkSet' = isSet
    /\ UNCHANGED <<filink, threshold, daoRole, txInfoMap, txVoteMap, cidListMap>>

\* The new users get the role; who had it keeps it.
SetDAOUsers(users) ==
    /\ daoRole' = daoRole \cup users
    /\ UNCHANGED <<filink, threshold, filinkSet, txInfoMap, txVoteMap, cidListMap>>

\* revokeRole and renounceRole of AccessControl.
RevokeRole(m) ==
    /\ daoRole' = daoRole \ {m}
    /\ UNCHANGED <<filink, threshold, filinkSet, txInfoMap, txVoteMap, cidListMap>>

\* Mutant: a member may sign again.
NeverSigned(m, key) == FALSE

AlreadySigned(m, key) == txInfoMap[key][m].flag

\* Mutant: any number of votes up to the threshold.
UpToThreshold(votes) == votes <= threshold /\ filinkSet

ReachesThreshold(votes) == votes = threshold /\ filinkSet

SignCarTransaction(m, list, deal, network, recipient) ==
    LET key == Concatenate(deal, network)
        voteKey == <<Signed, deal, network, recipient, list>>
    IN /\ m \in daoRole
       /\ ~AlreadySigned(m, key)
       /\ txVoteMap[voteKey] < MaxUint8
       /\ txInfoMap' = [txInfoMap EXCEPT ![key][m] =
                           [flag |-> TRUE, recipient |-> recipient, cidList |-> list]]
       /\ txVoteMap' = [txVoteMap EXCEPT ![voteKey] = @ + 1]
       /\ IF ReachesThreshold(txVoteMap'[voteKey])
          THEN /\ cidListMap' = [cidListMap EXCEPT ![key] = list]
               /\ RequestDealInfo(deal, network)
          ELSE UNCHANGED <<cidListMap, filink>>
       /\ UNCHANGED dao

\* What unlockCarPayment and the backend ask.
IsCarPaymentAvailable(deal, network, recipient) ==
    txVoteMap[<<Asked, deal, network, recipient, cidListMap[deal]>>] >= threshold

OracleNext ==
    \/ \E t \in Thresholds : UpdateThreshold(t)
    \/ \E isSet \in BOOLEAN : SetFilinkOracle(isSet)
    \/ \E users \in DaoUsers : SetDAOUsers(users)
    \/ \E m \in Members : RevokeRole(m)
    \/ \E m \in Members, list \in CarLists, deal \in Deals, network \in Networks,
          recipient \in Recipients : SignCarTransaction(m, list, deal, network, recipient)
    \/ \E deal \in Deals, network \in Networks :
          RequestDealInfo(deal, network) /\ UNCHANGED <<dao, txInfoMap, txVoteMap, cidListMap>>
    \/ \E id \in 1 .. Link, price \in Prices :
          Fulfill(id, price) /\ UNCHANGED <<dao, txInfoMap, txVoteMap, cidListMap>>

OracleSpec == OracleInit /\ [][OracleNext]_oracleVars

(***************************************************************************)
(* Properties.                                                             *)
(***************************************************************************)

\* Signatures, votes and lists are what their tables say; a vote counter never
\* leaves uint8.
OracleTypeOK ==
    /\ FilinkTypeOK
    /\ threshold \in Thresholds
    /\ filinkSet \in BOOLEAN
    /\ daoRole \subseteq Members
    /\ txInfoMap \in [DealKeys -> [Members -> TxOracleInfo]]
    /\ txVoteMap \in [VoteKeys -> 0 .. MaxUint8]
    /\ cidListMap \in [Keys -> Lists]

Signers(deal, network, recipient, list) ==
    {m \in Members : LET info == txInfoMap[Concatenate(deal, network)][m]
                     IN info.flag /\ info.recipient = recipient /\ info.cidList = list}

\* signCarTransaction counts members, not calls: the votes for a deal, recipient and
\* cid list are the members who signed exactly that, whoever was given or lost the
\* role since.
VotesAreSigners ==
    \A deal \in Deals, network \in Networks, recipient \in Recipients, list \in CarLists :
        txVoteMap[<<Signed, deal, network, recipient, list>>] =
            Cardinality(Signers(deal, network, recipient, list))

\* The cid list unlockCarPayment charges is the one agreed to: some recipient has at
\* least as many signers for it as the lowest threshold.
ListIsAgreed ==
    \A deal \in Deals, network \in Networks :
        LET list == cidListMap[Concatenate(deal, network)]
        IN list # EmptyList =>
              \E recipient \in Recipients, t \in Thresholds :
                  t <= Cardinality(Signers(deal, network, recipient, list))

\* Thresholds of more than half of all that may ever be members: a list that was
\* agreed to is never replaced, whatever the order of signatures and of the admin's
\* calls, although cidListMap (117) is overwritten without a look at it.
AgreedListStays ==
    [][\A deal \in Deals, network \in Networks :
          LET key == Concatenate(deal, network)
          IN cidListMap[key] # EmptyList => cidListMap'[key] = cidListMap[key]]_oracleVars

\* on-chain/README.md, steps 8 and 9: once the signatures of DAO members reach the
\* threshold, unlockCarPayment goes through.  The code asks for the votes under another
\* function signature, and for a cid list stored under another key: no run checks
\* this.
ThresholdMakesAvailable ==
    \A deal \in Deals, network \in Networks, recipient \in Recipients, list \in CarLists :
        Cardinality(Signers(deal, network, recipient, list)) >= threshold =>
            IsCarPaymentAvailable(deal, network, recipient)
=============================================================================
