------------------------------ MODULE MCServer ------------------------------
(***************************************************************************)
(* The start and stop of the server, and the accounts it keeps, for TLC.   *)
(* The two share no variable; a behaviour is one of Server while the       *)
(* accounts rest, or one of Accounts while the server rests.               *)
(***************************************************************************)
EXTENDS Server

CONSTANTS Client, Phone, Pwd, MaxSends, MaxExits

VARIABLES part, unique, jt_users, pc, request, reply, sends, exits

Table == INSTANCE Accounts

tableVars == <<unique, jt_users, pc, request, reply, sends, exits>>
allVars == <<vars, part, tableVars>>

MCInit == Init /\ Table!Init /\ part \in {"server", "accounts"}

MCNext ==
    \/ part = "server" /\ Next /\ UNCHANGED <<part, tableVars>>
    \/ part = "accounts" /\ Table!Next /\ UNCHANGED <<part, vars>>

MCSpec == MCInit /\ [][MCNext]_allVars /\ (part = "server" => Fairness)

(* The assumptions of Accounts.                                            *)
ASSUME AccountsAssumption == Table!BoundAssumption /\ Table!TextAssumption

(* Every variable of the server and of the table has its type.             *)
TypesOK == TypeOK /\ Table!TypeOK

(* Who registered has an account to log in with: see Accounts.             *)
RegistrationsKept == Table!RegistrationsKept

=============================================================================
