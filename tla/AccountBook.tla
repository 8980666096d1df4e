---------------------------- MODULE AccountBook -----------------------------
(***************************************************************************)
(* What registration and login promise.  An account is opened once, with a *)
(* password and a player id that no other account has, and keeps both for  *)
(* good.  Whoever is told SUCCEED by a registration has opened the account *)
(* in that moment, whoever is told so by a login knows its password.       *)
(***************************************************************************)
EXTENDS Naturals

CONSTANTS
    Names, Passwords, Clients, Nil,
    Preset          \* accounts whose id is fixed, which may be given away again

VARIABLES
    book,           \* the account of each name, or Nil
    granted,        \* the names that clients were told to have registered
    admitted        \* the account that each client was last told to be logged in to

vars == <<book, granted, admitted>>

Account == [password : Passwords, id : Nat]

Init ==
    /\ book = [n \in Names |-> Nil]
    /\ granted = {}
    /\ admitted = [c \in Clients |-> Nil]

Fresh(i) == \A m \in Names \ Preset : book[m] # Nil => book[m].id # i

Open(n, told) ==
    /\ book[n] = Nil
    /\ book'[n] \in Account
    /\ book' = [book EXCEPT ![n] = book'[n]]
    /\ n \notin Preset => Fresh(book'[n].id)
    /\ granted' = granted \cup told
    /\ UNCHANGED admitted

Admit(c, n) ==
    /\ admitted'[c] \in [name : {n}, password : Passwords]
    /\ book[n] # Nil /\ book[n].password = admitted'[c].password
    /\ admitted' = [admitted EXCEPT ![c] = admitted'[c]]
    /\ UNCHANGED <<book, granted>>

\* A client sends its next request, or the server forgets its clients.
Leave ==
    /\ \A c \in Clients : admitted'[c] \in {admitted[c], Nil}
    /\ admitted' = [c \in Clients |-> admitted'[c]]
    /\ UNCHANGED <<book, granted>>

Next ==
    \/ \E n \in Names : Open(n, {n}) \/ Open(n, {})
    \/ \E c \in Clients, n \in Names : Admit(c, n)
    \/ Leave

Spec == Init /\ [][Next]_vars

=============================================================================
