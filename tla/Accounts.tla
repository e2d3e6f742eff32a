------------------------------ MODULE Accounts ------------------------------
(***************************************************************************)
(* What a request means: buffered_on_read (src/server_threaded.c:62-137)   *)
(* and CDBManager (src/dbmanager.cpp) over the table jt_users.  Every      *)
(* connection is served by its own thread with its own MySQL connection,   *)
(* so requests of different connections interleave at the query; the       *)
(* process may end at any step, and a client that gets no answer may send  *)
(* its request again.                                                      *)
(*                                                                         *)
(* The values of a request go into the SQL text without quotes.  A text of *)
(* digits is therefore a number there, whose leading zeros are gone; one   *)
(* with a dash is a difference; the name of a column is its value; any     *)
(* other word is a column that does not exist, and MySQL refuses the       *)
(* statement.  The repository does not create jt_users: whether a login is *)
(* a unique key of it is left open.                                        *)
(***************************************************************************)
EXTENDS Naturals, FiniteSets

CONSTANTS Client,     \* connections
          Phone,      \* texts sent as PhoneNO and User_login
          Pwd,        \* texts sent as Pwd and User_pass
          MaxSends,   \* bound on the requests sent
          MaxExits    \* bound on the restarts of the process

BoundAssumption == MaxSends \in Nat /\ MaxExits \in Nat

(* The texts used here: digits, digits of the same value, a difference, a  *)
(* column and a word.  (As a login the column's own name would be its      *)
(* default value, which the repository does not give.)                     *)
Text == {"7", "007", "9-2", "8", "word", "user_login"}
TextAssumption == Phone \subseteq Text \ {"user_login"} /\ Pwd \subseteq Text

VARIABLES
    unique,     \* user_login is a unique key of jt_users
    jt_users,   \* the rows of the table: pairs of a login and a password
    pc,         \* where the connection's buffered_on_read is
    request,    \* what the client sent last
    reply,      \* what it was answered: the error_code, or another outcome
    sends,      \* how many requests were sent
    exits       \* how often the process ended

vars == <<unique, jt_users, pc, request, reply, sends, exits>>

Call(f) == [f : {f}, login : Phone, pass : Pwd]
Request ==
    Call("register") \cup Call("login")
    \cup {[f |-> g, login |-> "7", pass |-> "7"] : g \in {"junk", "other"}}

NoRequest == [f |-> "none", login |-> "7", pass |-> "7"]

Init ==
    /\ unique \in BOOLEAN
    /\ jt_users = {}
    /\ pc = [c \in Client |-> "idle"]
    /\ request = [c \in Client |-> NoRequest]
    /\ reply = [c \in Client |-> "none"]
    /\ sends = 0
    /\ exits = 0

(* The value of an expression of digits in a statement without quotes.     *)
Value(text) == IF text = "8" THEN 8 ELSE 7

(* The value of the password in the statement about a row of this login.   *)
PassValue(text, login) == IF text = "user_login" THEN login ELSE Value(text)

(* No value is read as a column that does not exist.                       *)
WellFormed(r) == "word" \notin {r.login, r.pass}

(* The row that the insert of a registration stores, and whether a row is  *)
(* one that the select of a login with these texts returns.                *)
Row(r) == <<Value(r.login), PassValue(r.pass, Value(r.login))>>
Selected(r, u) == u[1] = Value(r.login) /\ u[2] = PassValue(r.pass, u[1])

Answer(c, code) ==
    /\ reply' = [reply EXCEPT ![c] = code]
    /\ pc' = [pc EXCEPT ![c] = "idle"]

-----------------------------------------------------------------------------
(* buffered_on_read                                                        *)

(* A client sends a request; what was answered before is forgotten.        *)
send(c) ==
    /\ pc[c] = "idle"
    /\ sends < MaxSends
    /\ \E r \in Request : request' = [request EXCEPT ![c] = r]
    /\ sends' = sends + 1
    /\ reply' = [reply EXCEPT ![c] = "none"]
    /\ pc' = [pc EXCEPT ![c] = "read"]
    /\ UNCHANGED <<unique, jt_users, exits>>

(* No JSON, or no FunctionName: error_code -11.                            *)
read_junk(c) ==
    /\ pc[c] = "read"
    /\ request[c].f = "junk"
    /\ Answer(c, "-11")
    /\ UNCHANGED <<unique, jt_users, request, sends, exits>>

(* A FunctionName: the MySQL connection is made.  mysql_init or            *)
(* mysql_real_connect may fail, which ends the process: see process_exit.  *)
read_call(c) ==
    /\ pc[c] = "read"
    /\ request[c].f # "junk"
    /\ pc' = [pc EXCEPT ![c] = "query"]
    /\ UNCHANGED <<unique, jt_users, request, reply, sends, exits>>

(* A FunctionName that is neither: the reply is the null value.            *)
call_other(c) ==
    /\ pc[c] = "query"
    /\ request[c].f = "other"
    /\ Answer(c, "null")
    /\ UNCHANGED <<unique, jt_users, request, sends, exits>>

-----------------------------------------------------------------------------
(* CDBManager::user_register_func                                          *)

(* Mutant of register_insert: the row replaces the one of the same login.  *)
Mutant_replace(c) ==
    /\ pc[c] = "query"
    /\ request[c].f = "register"
    /\ WellFormed(request[c])
    /\ \E r \in {Row(request[c])} :
          jt_users' = {u \in jt_users : u[1] # r[1]} \cup {r}
    /\ pc' = [pc EXCEPT ![c] = "inserted"]
    /\ UNCHANGED <<unique, request, reply, sends, exits>>

(* The insert takes effect; its success is reported afterwards.            *)
register_insert(c) ==
    /\ pc[c] = "query"
    /\ request[c].f = "register"
    /\ WellFormed(request[c])
    /\ unique => \A u \in jt_users : u[1] # Value(request[c].login)
    /\ jt_users' = jt_users \cup {Row(request[c])}
    /\ pc' = [pc EXCEPT ![c] = "inserted"]
    /\ UNCHANGED <<unique, request, reply, sends, exits>>

register_ok(c) ==
    /\ pc[c] = "inserted"
    /\ Answer(c, "0")
    /\ UNCHANGED <<unique, jt_users, request, sends, exits>>

(* mysql_query fails: a duplicate, a bad statement, or a lost connection.  *)
register_fail(c) ==
    /\ pc[c] = "query"
    /\ request[c].f = "register"
    /\ Answer(c, "-111")
    /\ UNCHANGED <<unique, jt_users, request, sends, exits>>

-----------------------------------------------------------------------------
(* CDBManager::user_login_func                                             *)

(* The select is well formed and succeeds.  mysql_field_count is the       *)
(* number of columns of jt_users, never 0 after a select, so the function  *)
(* returns true whether or not a row is Selected.                          *)
login_ok(c) ==
    /\ pc[c] = "query"
    /\ request[c].f = "login"
    /\ WellFormed(request[c])
    /\ Answer(c, "0")
    /\ UNCHANGED <<unique, jt_users, request, sends, exits>>

login_fail(c) ==
    /\ pc[c] = "query"
    /\ request[c].f = "login"
    /\ Answer(c, "-121")
    /\ UNCHANGED <<unique, jt_users, request, sends, exits>>

(* exit(1) in CDBManager, or any other end of the process: the requests in *)
(* progress are lost, the table is not.  The server is started again.      *)
process_exit ==
    /\ exits < MaxExits
    /\ exits' = exits + 1
    /\ \E c \in Client : pc[c] \in {"read", "query", "inserted"}
    /\ pc' = [c \in Client |-> "idle"]
    /\ reply' = [c \in Client |-> IF pc[c] = "idle" THEN reply[c] ELSE "lost"]
    /\ UNCHANGED <<unique, jt_users, request, sends>>

serve(c) ==
    \/ read_junk(c) \/ read_call(c) \/ call_other(c)
    \/ register_insert(c) \/ register_ok(c) \/ register_fail(c)
    \/ login_ok(c) \/ login_fail(c)

Next == (\E c \in Client : send(c) \/ serve(c)) \/ process_exit

Spec == Init /\ [][Next]_vars

-----------------------------------------------------------------------------
(* Properties                                                              *)

(* Every variable has its type.                                            *)
TypeOK ==
    /\ unique \in BOOLEAN
    /\ jt_users \subseteq Nat \X Nat
    /\ pc \in [Client -> {"idle", "read", "query", "inserted"}]
    /\ request \in [Client -> Request \cup {NoRequest}]
    /\ reply \in [Client -> {"none", "lost", "null", "0", "-11", "-111",
                             "-121"}]
    /\ sends \in 0 .. MaxSends
    /\ exits \in 0 .. MaxExits

(* Whoever was answered 0 to a registration has an account: the select of  *)
(* a login with the same texts returns a row, though the texts are neither *)
(* quoted nor stored as they are, other clients register the same login,   *)
(* requests are repeated and the process ends at any step, and whether or  *)
(* not a login is a unique key (server_threaded.c:79-90,                   *)
(* dbmanager.cpp:84-127).  With the key a login has one row, so that its   *)
(* password is the first one registered.                                   *)
RegistrationsKept ==
    /\ \A c \in Client :
          request[c].f = "register" /\ reply[c] = "0" =>
              \E u \in jt_users : Selected(request[c], u)
    /\ unique => \A u, v \in jt_users : u[1] = v[1] => u = v

=============================================================================
