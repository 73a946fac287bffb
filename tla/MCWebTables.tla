---------------------------- MODULE MCWebTables ----------------------------
(* Model values of WebTables for TLC, and one specification for it and     *)
(* MyFiles, which share no state: a behaviour takes the steps of one of    *)
(* them while the other rests.  Three decimals stand for 18.               *)
EXTENDS WebTables, MyFiles, TLC
CONSTANTS one, many, w1, w2, byName, fileA, fileB
MCFees == Empty :> <<0, 7, 120, 1000, 10305>> @@ one :> <<20>> @@ many :> <<999, 1010, 123456>>

VARIABLE part
MCvars == <<vars, filesVars, part>>

TablesRest == kind = "search" /\ ctl = Fresh(Empty, w1)
FilesRest == paid = {}

MCInit ==
    /\ Init /\ FilesInit
    /\ \/ part = "tables" /\ FilesRest
       \/ part = "files" /\ TablesRest

MCNext ==
    \/ part = "tables" /\ Next /\ UNCHANGED <<filesVars, part>>
    \/ part = "files" /\ FilesNext /\ UNCHANGED <<vars, part>>

MCSpec == MCInit /\ [][MCNext]_MCvars
=============================================================================
