----------------------------- MODULE Authorization -----------------------------
(***************************************************************************)
(* Authorisation against passwords files (src/Server/civetweb/civetweb.c,  *)
(* check_authorization, authorize, read_auth_file), and the nonces of      *)
(* digest challenges, which threads of one server take from one counter    *)
(* and which a new start of the server makes invalid.                      *)
(*                                                                         *)
(* A hash is the tuple of what is hashed.  A mask keeps the bits of        *)
(* nonces apart that differ between two starts; the code draws 64 random   *)
(* bits, of which collisions are left out.                                 *)
(***************************************************************************)
EXTENDS Naturals, Sequences, FiniteSets, SequencesExt, Bitwise

CONSTANTS
    Threads,
    Users, Passwords,
    Realm,          \* authentication_domain
    Files,          \* passwords files: names, which are paths, to sequences of lines
    ProtectUri,     \* protect_uri: a sequence of [prefix, file]
    Global,         \* global_auth_file, or <<>>
    PutFile,        \* put_delete_auth_file, or <<>>
    Paths,          \* what is asked for, sequences of names; local_uri is the same
    Directories,    \* those of them that are directories
    Depth,          \* INITIAL_DEPTH
    Masks,          \* auth_nonce_mask, of each start
    Junk,           \* numbers that clients send and no server has given out
    MaxTime, MaxChallenges      \* bounds

AuthAssumption == Depth \in Nat \ {0} /\ MaxTime \in Nat /\ MaxChallenges \in Nat

VARIABLES
    now, start_time,
    run, nonce_count,
    lock,           \* the context's mutex: "free" or the thread that has it
    pc, req,        \* of each thread (req.fresh is a ghost: the nonce was out when the request came)
    known,          \* nonces that clients have
    issued          \* ghost: nonces of this run, in the order they were given out

vars == <<now, start_time, run, nonce_count, lock, pc, req, known, issued>>

mask == Masks[run]

HA1(user, domain, password) == <<user, domain, password>>

(* What Authorization may say: nothing, a name and password, or a digest.  *)
NoHeader == [type |-> "none", user |-> "none", password |-> "none", nonce |-> 0, complete |-> FALSE]
Basic == {[NoHeader EXCEPT !.type = "basic", !.user = u, !.password = p] : u \in Users, p \in Passwords}
(* A digest is computed from the password; it may lack nc, cnonce or qop. *)
Digest == {[type |-> "digest", user |-> u, password |-> p, nonce |-> n, complete |-> c] :
             u \in Users, p \in Passwords, n \in known \cup Junk, c \in BOOLEAN}
Headers == {NoHeader} \cup Basic \cup Digest
Idle == [method |-> "GET", path |-> <<>>, header |-> NoHeader, nonce |-> 0, fresh |-> FALSE]

TypeOK ==
    /\ now >= start_time /\ nonce_count \in Nat /\ run \in DOMAIN Masks
    /\ \A t \in Threads : pc[t] \in {"idle", "check", "granted", "refused", "count"}
    /\ lock # "free" => pc[lock] = "count"

Init ==
    /\ now = 0 /\ start_time = 0 /\ run = 1 /\ nonce_count = 0 /\ lock = "free"
    /\ pc = [t \in Threads |-> "idle"] /\ req = [t \in Threads |-> Idle]
    /\ known = {} /\ issued = <<>>

-----------------------------------------------------------------------------
(* Passwords files *)

Exists(f) == f \in DOMAIN Files

NonceOK(n) == (n ^^ mask) >= start_time /\ (n ^^ mask) < start_time + nonce_count

parse_auth_header(h) == h.type = "basic" \/ (h.type = "digest" /\ NonceOK(h.nonce))

check_password_digest(h, ha1) == h.complete /\ ha1 = HA1(h.user, Realm, h.password)

PasswordOK(h, ha1) ==
    IF h.type = "basic" THEN ha1 = HA1(h.user, Realm, h.password) ELSE check_password_digest(h, ha1)

IsEntryOf(h, l) == l.kind = "entry" /\ l.user = h.user /\ l.domain = Realm

(* The first entry of the user in a file decides, unless a file that is    *)
(* included before it grants.                                              *)
read_auth_file(f, h) ==
    LET reads[d \in 0 .. Depth] ==
          [g \in DOMAIN Files |->
             LET lines == Files[g]
                 first == SelectInSeq(lines, LAMBDA l : IsEntryOf(h, l))
                 before == IF first = 0 THEN DOMAIN lines ELSE 1 .. first - 1
             IN /\ d > 0
                /\ \/ \E i \in before : /\ lines[i].kind = "include" /\ Exists(lines[i].file)
                                        /\ reads[d - 1][lines[i].file]
                   \/ first # 0 /\ PasswordOK(h, lines[first].ha1)]
    IN reads[Depth][f]

authorize(f, h) == parse_auth_header(h) /\ read_auth_file(f, h)

Htpasswd(p) == p \o <<"htpasswd">>
open_auth_file(p) ==
    IF Global # <<>> THEN Global
    ELSE IF p \in Directories THEN Htpasswd(p) ELSE Htpasswd(Front(p))

(* The file of the first option that fits, if it can be opened. *)
AuthFile(p) ==
    LET i == SelectInSeq(ProtectUri, LAMBDA u : IsPrefix(u.prefix, p))
    IN IF i # 0 /\ Exists(ProtectUri[i].file) THEN ProtectUri[i].file ELSE open_auth_file(p)

check_authorization(p, h) == Exists(AuthFile(p)) => authorize(AuthFile(p), h)
is_authorized_for_put(h) == PutFile # <<>> /\ Exists(PutFile) /\ authorize(PutFile, h)

-----------------------------------------------------------------------------
(* Requests *)

Arrive(t) ==
    /\ pc[t] = "idle"
    /\ \E m \in {"GET", "PUT"}, p \in Paths, h \in Headers :
         req' = [req EXCEPT ![t] = [method |-> m, path |-> p, header |-> h, nonce |-> 0,
                                     fresh |-> h.nonce \in Range(issued)]]
    /\ pc' = [pc EXCEPT ![t] = "check"]
    /\ UNCHANGED <<now, start_time, run, nonce_count, lock, known, issued>>

Check(t) ==
    /\ pc[t] = "check"
    /\ LET r == req[t]
           ok == IF r.method = "PUT" THEN is_authorized_for_put(r.header)
                 ELSE check_authorization(r.path, r.header)
       IN pc' = [pc EXCEPT ![t] = IF ok THEN "granted" ELSE "refused"]
    /\ UNCHANGED <<now, start_time, run, nonce_count, lock, req, known, issued>>

Answer(t) ==
    /\ pc[t] = "granted" /\ pc' = [pc EXCEPT ![t] = "idle"]
    /\ req' = [req EXCEPT ![t] = Idle]
    /\ UNCHANGED <<now, start_time, run, nonce_count, lock, known, issued>>

(* Faulty: the counter is read without the lock. *)
LockAlways(t) == TRUE

(* send_authorization_request: the nonce under the lock, its sending later. *)
CanLock(t) == lock = "free"

TakeNonce(t) ==
    /\ pc[t] = "refused" /\ CanLock(t) /\ nonce_count < MaxChallenges
    /\ lock' = t /\ pc' = [pc EXCEPT ![t] = "count"]
    /\ req' = [req EXCEPT ![t].nonce = start_time + nonce_count]
    /\ UNCHANGED <<now, start_time, run, nonce_count, known, issued>>

Unlocked == "free"
CountNonce(t) ==
    /\ pc[t] = "count"
    /\ nonce_count' = nonce_count + 1
    /\ lock' = Unlocked /\ pc' = [pc EXCEPT ![t] = "idle"]
    /\ known' = known \cup {req[t].nonce ^^ mask}
    /\ issued' = Append(issued, req[t].nonce ^^ mask)
    /\ req' = [req EXCEPT ![t] = Idle]
    /\ UNCHANGED <<now, start_time, run>>

Tick ==
    /\ now < MaxTime /\ now' = now + 1
    /\ UNCHANGED <<start_time, run, nonce_count, lock, pc, req, known, issued>>

(* The server is stopped, and started again. *)
Restart ==
    /\ run < Len(Masks) /\ lock = "free"
    /\ run' = run + 1 /\ start_time' = now /\ nonce_count' = 0 /\ issued' = <<>>
    /\ pc' = [t \in Threads |-> "idle"] /\ req' = [t \in Threads |-> Idle]
    /\ UNCHANGED <<now, lock, known>>

Next ==
    \/ \E t \in Threads : Arrive(t) \/ Check(t) \/ Answer(t) \/ TakeNonce(t) \/ CountNonce(t)
    \/ Tick \/ Restart

Spec == Init /\ [][Next]_vars

-----------------------------------------------------------------------------
(* Properties *)

(* send_authorization_request counts under the context's lock: no two      *)
(* challenges of one run carry the same nonce.                             *)
NoncesDistinct == IsInjective(issued)

(* parse_auth_header: a nonce "from a previous start of the server" is "no *)
(* longer valid", and one that is "too high" has not been used yet: a      *)
(* digest is accepted with a nonce of this run only.                       *)
GrantedIssued ==
    \A t \in Threads :
       (/\ pc[t] = "granted" /\ req[t].header.type = "digest"
        /\ (req[t].method = "PUT" \/ Exists(AuthFile(req[t].path))))
       => req[t].header.nonce \in Range(issued)

(* What a file says, with the files it includes.                           *)
Entries(f) ==
    LET reach[d \in 0 .. Depth - 1] ==
          IF d = 0 THEN {f}
          ELSE reach[d - 1] \cup {l.file : l \in {x \in UNION {Range(Files[g]) : g \in reach[d - 1]} :
                                                     x.kind = "include" /\ Exists(x.file)}}
    IN {l \in UNION {Range(Files[g]) : g \in reach[Depth - 1]} : l.kind = "entry"}
FileOf(r) == IF r.method = "PUT" THEN PutFile ELSE AuthFile(r.path)

(* A request that passwords files apply to is granted only when an entry   *)
(* for its user, in the server's domain, has the password's hash.          *)
GrantedListed ==
    \A t \in Threads :
       (pc[t] = "granted" /\ Exists(FileOf(req[t]))) =>
          \E l \in Entries(FileOf(req[t])) :
             l.user = req[t].header.user /\ l.domain = Realm
             /\ l.ha1 = HA1(l.user, Realm, req[t].header.password)

(* A complete digest with a nonce of this run and the password of the      *)
(* user's only entry is not refused, wherever in the included files the    *)
(* entry is, however many nonces have been given out since.                *)
ListedGranted ==
    \A t \in Threads :
       LET r == req[t]
           mine == {l \in Entries(FileOf(r)) : l.user = r.header.user /\ l.domain = Realm}
       IN (/\ pc[t] = "refused" /\ r.header.type = "digest" /\ r.header.complete
           /\ r.fresh /\ Exists(FileOf(r)) /\ Cardinality(mine) = 1)
          => \A l \in mine : l.ha1 # HA1(l.user, Realm, r.header.password)

=============================================================================
