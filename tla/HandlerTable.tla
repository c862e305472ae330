---------------------------- MODULE HandlerTable ----------------------------
(* What the handler list of the HTTP front end promises                    *)
(* (src/Server/civetweb/civetweb.h:495-515): a table of callbacks by URI,  *)
(* from which a request takes the entry that fits its URI best and uses it *)
(* until it gives it back; an entry in use is neither replaced nor removed.*)
EXTENDS Naturals

CONSTANTS
    Requests,   \* the threads that handle requests
    Kinds,      \* the kinds of handlers
    Uris,       \* URIs, those with patterns included
    Inside,     \* <<u, r>>: request URI r is u followed by '/'
    Matching,   \* <<u, r>>: pattern u matches the beginning of r
    Callbacks, NoCallback

VARIABLES
    table,      \* table[k, u]: the callback registered for u, or NoCallback
    taken       \* taken[c]: the entry request c uses and its own URI, or NoCallback

(* How well u fits r: 0 is best, 3 not at all. *)
Rank(u, r) ==
    CASE u = r -> 0
      [] u # r /\ <<u, r>> \in Inside -> 1
      [] u # r /\ <<u, r>> \notin Inside /\ <<u, r>> \in Matching -> 2
      [] OTHER -> 3

Registered(k) == {u \in Uris : table[<<k, u>>] # NoCallback}

Best(k, r) ==
    {u \in Registered(k) :
        Rank(u, r) < 3 /\ \A v \in Registered(k) : Rank(u, r) <= Rank(v, r)}

Init ==
    /\ table = [e \in Kinds \X Uris |-> NoCallback]
    /\ taken = [c \in Requests |-> NoCallback]

InUse(u) == \E c \in Requests : taken[c] # NoCallback /\ taken[c].uri = u

Set(k, u, cb) ==
    /\ k = "request" => ~ InUse(u)
    /\ table' = [table EXCEPT ![<<k, u>>] = cb]
    /\ UNCHANGED taken

Take(c, r) ==
    /\ taken[c] = NoCallback
    /\ \E u \in Best("request", r) :
         taken' = [taken EXCEPT ![c] = [uri |-> u, for |-> r, cb |-> table[<<"request", u>>]]]
    /\ UNCHANGED table

GiveBack(c) ==
    /\ taken[c] # NoCallback
    /\ taken' = [taken EXCEPT ![c] = NoCallback]
    /\ UNCHANGED table

Next ==
    \/ \E k \in Kinds, u \in Uris, cb \in Callbacks \cup {NoCallback} : Set(k, u, cb)
    \/ \E c \in Requests : GiveBack(c) \/ \E r \in Uris : Take(c, r)

Spec == Init /\ [][Next]_<<table, taken>>
=============================================================================
