------------------------------ MODULE DavLocks ------------------------------
(***************************************************************************)
(* The WebDAV locks of the HTTP front end: dav_lock_file, dav_unlock_file  *)
(* and the lock discovery of print_props (src/Server/civetweb/civetweb.c). *)
(*                                                                         *)
(* A context has a fixed table of locks.  LOCK and UNLOCK use it under the *)
(* mutex of the context, so each of those sections is one step; the answer *)
(* to LOCK is made afterwards, from the table as it is then.  PROPFIND     *)
(* reads the table without the mutex.                                      *)
(***************************************************************************)
EXTENDS Naturals, FiniteSets, FiniteSetsExt

CONSTANTS
    Workers,
    Users, NoUser,      \* request_info.remote_user
    Paths, NoPath,      \* NoPath: path[0] is 0
    NumLocks,           \* NUM_WEBDAV_LOCKS
    Duration,           \* LOCK_DURATION_S
    MaxTime             \* bound on the clock

LocksAssumption ==
    /\ NumLocks \in Nat \ {0} /\ Duration \in Nat
    /\ NoUser \notin Users /\ NoPath \notin Paths

VARIABLES
    now,
    webdav_lock,        \* slot -> [path, user, token, time]
    req,                \* worker -> [method, user, path]
    pc,                 \* "idle", "respond" or "answered"
    lock_index,         \* worker -> slot it found
    answer              \* worker -> [status, user, path, token]

vars == <<now, webdav_lock, req, pc, lock_index, answer>>

Slots == 1 .. NumLocks
Free == [path |-> NoPath, user |-> NoUser, token |-> 0, time |-> 0]
NoAnswer == [status |-> 0, user |-> NoUser, path |-> NoPath, token |-> 0]
(* PROPFIND does not look at the user. *)
DavRequests ==
    [method : {"LOCK", "UNLOCK"}, user : Users \cup {NoUser}, path : Paths]
      \cup [method : {"PROPFIND"}, user : {NoUser}, path : Paths]

TypeOK ==
    /\ now \in 0 .. MaxTime
    /\ webdav_lock \in [Slots -> [path : Paths \cup {NoPath}, user : Users \cup {NoUser},
                                  token : 0 .. MaxTime, time : 0 .. MaxTime]]
    /\ pc \in [Workers -> {"idle", "respond", "answered"}]
    /\ lock_index \in [Workers -> 0 .. NumLocks]

Init ==
    /\ now = 0
    /\ webdav_lock = [i \in Slots |-> Free]
    /\ req \in [Workers -> DavRequests]
    /\ pc = [w \in Workers |-> "idle"]
    /\ lock_index = [w \in Workers |-> 0]
    /\ answer = [w \in Workers |-> NoAnswer]

Expired(i) == now > webdav_lock[i].time + Duration

Answers(w, status) ==
    /\ pc' = [pc EXCEPT ![w] = "answered"]
    /\ answer' = [answer EXCEPT ![w] = [NoAnswer EXCEPT !.status = status]]
    /\ UNCHANGED lock_index

-----------------------------------------------------------------------------
(* dav_lock_file.  At: the slots of a path.  Decisive: the first of them   *)
(* that is the user's own or a lock still valid, if there is one; those    *)
(* before it have expired and are cleared.                                 *)
At(t, p) == {i \in Slots : t[i].path = p}

Decisive(w) ==
    {i \in At(webdav_lock, req[w].path) : webdav_lock[i].user = req[w].user \/ ~ Expired(i)}

Cleared(w) ==
    [i \in Slots |->
        IF i \in At(webdav_lock, req[w].path) /\ (\A j \in Decisive(w) : i < j)
        THEN [webdav_lock[i] EXCEPT !.path = NoPath]
        ELSE webdav_lock[i]]

Refused(w) == Decisive(w) # {} /\ webdav_lock[Min(Decisive(w))].user # req[w].user

(* The user's own lock is found again ... *)
Found(w) ==
    IF Decisive(w) = {} THEN Cleared(w)
    ELSE [Cleared(w) EXCEPT ![Min(Decisive(w))].time = now]

NewLock(w) == [path |-> req[w].path, user |-> req[w].user, token |-> now, time |-> now]

(* ... and one is created in the first free slot all the same.  If none is *)
(* free and none was found, the oldest one is invalidated.                 *)
Oldest(t) ==
    CHOOSE i \in Slots : \A j \in Slots : t[i].time < t[j].time \/ (t[i].time = t[j].time /\ i <= j)

(* Faulty: a lock of somebody else is not looked at. *)
LockShared(w) ==
    /\ pc[w] = "idle" /\ req[w].method = "LOCK" /\ req[w].user # NoUser
    /\ LET t == Found(w)
       IN  /\ At(t, NoPath) # {}
           /\ webdav_lock' = [t EXCEPT ![Min(At(t, NoPath))] = NewLock(w)]
           /\ lock_index' = [lock_index EXCEPT ![w] = Min(At(t, NoPath))]
    /\ pc' = [pc EXCEPT ![w] = "respond"]
    /\ UNCHANGED <<now, req, answer>>

Lock(w) ==
    /\ pc[w] = "idle" /\ req[w].method = "LOCK" /\ req[w].user # NoUser
    /\ IF Refused(w)
         THEN webdav_lock' = Cleared(w) /\ Answers(w, 423)
         ELSE /\ LET t == Found(w)
                 IN  IF At(t, NoPath) # {}
                       THEN /\ webdav_lock' = [t EXCEPT ![Min(At(t, NoPath))] = NewLock(w)]
                            /\ lock_index' = [lock_index EXCEPT ![w] = Min(At(t, NoPath))]
                     ELSE IF Decisive(w) # {}
                       THEN /\ webdav_lock' = t
                            /\ lock_index' = [lock_index EXCEPT ![w] = Min(Decisive(w))]
                     ELSE   /\ webdav_lock' = [t EXCEPT ![Oldest(t)].path = NoPath]
                            /\ lock_index' = [lock_index EXCEPT ![w] = Oldest(t)]
              /\ pc' = [pc EXCEPT ![w] = "respond"]
              /\ UNCHANGED answer
    /\ UNCHANGED <<now, req>>

(* The answer, without the mutex. *)
Respond(w) ==
    /\ pc[w] = "respond"
    /\ pc' = [pc EXCEPT ![w] = "answered"]
    /\ LET e == webdav_lock[lock_index[w]]
       IN  answer' = [answer EXCEPT ![w] =
                        [status |-> 200, user |-> e.user, path |-> e.path, token |-> e.token]]
    /\ UNCHANGED <<now, webdav_lock, req, lock_index>>

(* dav_unlock_file finds the lock; that is all it does. *)
Unlock(w) ==
    /\ pc[w] = "idle" /\ req[w].method = "UNLOCK" /\ req[w].user # NoUser
    /\ Answers(w, IF At(webdav_lock, req[w].path) # {} THEN 204 ELSE 423)
    /\ UNCHANGED <<now, webdav_lock, req>>

(* print_props names the locks of the path; here the first of them. *)
Propfind(w) ==
    /\ pc[w] = "idle" /\ req[w].method = "PROPFIND"
    /\ pc' = [pc EXCEPT ![w] = "answered"]
    /\ answer' = [answer EXCEPT ![w] =
         IF At(webdav_lock, req[w].path) = {} THEN [NoAnswer EXCEPT !.status = 207]
         ELSE LET e == webdav_lock[Min(At(webdav_lock, req[w].path))]
              IN  [status |-> 207, user |-> e.user, path |-> e.path, token |-> e.token]]
    /\ UNCHANGED <<now, webdav_lock, req, lock_index>>

(* Without a user LOCK and UNLOCK return at once, and answer nothing. *)
Nothing(w) ==
    /\ pc[w] = "idle" /\ req[w].method # "PROPFIND" /\ req[w].user = NoUser
    /\ Answers(w, 0)
    /\ UNCHANGED <<now, webdav_lock, req>>

(* The worker's next request. *)
NextRequest(w) ==
    /\ pc[w] = "answered"
    /\ pc' = [pc EXCEPT ![w] = "idle"]
    /\ \E r \in DavRequests : req' = [req EXCEPT ![w] = r]
    /\ lock_index' = [lock_index EXCEPT ![w] = 0]
    /\ answer' = [answer EXCEPT ![w] = NoAnswer]
    /\ UNCHANGED <<now, webdav_lock>>

Tick == now < MaxTime /\ now' = now + 1 /\ UNCHANGED <<webdav_lock, req, pc, lock_index, answer>>

Next ==
    \/ Tick
    \/ \E w \in Workers :
         Lock(w) \/ Respond(w) \/ Unlock(w) \/ Propfind(w) \/ Nothing(w) \/ NextRequest(w)

Spec == Init /\ [][Next]_vars

-----------------------------------------------------------------------------
Locked(i) == webdav_lock[i].path # NoPath

(* However locks are refreshed, expire and are evicted, no path is locked  *)
(* by two users: dav_lock_file stops at the first slot of the path that is *)
(* the user's own, and relies on the others to be the user's too.          *)
OneOwner ==
    \A i, j \in Slots :
        Locked(i) /\ webdav_lock[i].path = webdav_lock[j].path
          => webdav_lock[i].user = webdav_lock[j].user

(* A lock goes only when it has expired, or when the table is full and no  *)
(* lock is older.                                                          *)
KeptUntilExpired ==
    \A i \in Slots : Locked(i) /\ webdav_lock'[i].path # webdav_lock[i].path =>
       \/ Expired(i)
       \/ /\ \A j \in Slots : Locked(j)
          /\ \A j \in Slots : webdav_lock[i].time <= webdav_lock[j].time

(* Nobody is refused a lock that nobody else holds.                        *)
RefusedForCause ==
    \A w \in Workers :
       pc[w] = "idle" /\ req[w].method = "LOCK" /\ answer'[w].status = 423 =>
         \E i \in At(webdav_lock, req[w].path) :
             webdav_lock[i].user # req[w].user /\ ~ Expired(i)

=============================================================================
