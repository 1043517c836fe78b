----------------------------- MODULE NodeSession -----------------------------
(***************************************************************************)
(* Login, logout and session lookup of the Node/Express example (app.mjs). *)
(* A login writes a record to Redis, which the gateway accepts under the   *)
(* browser's gateway cookie, and names it in the browser's Express         *)
(* session.  A request works on the copy of the session it loaded when it  *)
(* began (external: express-session with its memory store), so requests of *)
(* one browser that overlap can undo each other's changes.                 *)
(***************************************************************************)
CONSTANTS Requests, None

VARIABLES
  records,    \* Redis: per login its record: "none", "live", "dead" (expired, revoked)
  sessions,   \* the session store: per session the login it names, or None
  jar,        \* the browser's two cookies
  req,        \* the requests in flight
  named,      \* ghost: logins a session has named
  overtaken   \* ghost: logins a request dropped from a session without having seen them

vars == <<records, sessions, jar, req, named, overtaken>>

\* A request: where it is, the session it works on, and the identity it loaded.
Idle == [pc |-> "idle", mine |-> None, identity |-> None]

Init == /\ records = [r \in Requests |-> "none"]
        /\ sessions = [r \in Requests |-> None]
        /\ jar = [example |-> None, gateway |-> None]
        /\ req = [r \in Requests |-> Idle] /\ named = {} /\ overtaken = {}

\* The session middleware: the stored session of the browser's cookie, or a new
\* one, which is stored only when a login changes it.
Load(r, pc) ==
  LET known == jar.example # None /\ sessions[jar.example] # None
  IN [pc |-> pc, mine |-> IF known THEN jar.example ELSE r,
      identity |-> IF known THEN sessions[jar.example] ELSE None]

Goto(r, pc) == req' = [req EXCEPT ![r].pc = pc]

\* A login that passed the Origin, body and identity checks.
Login(r) == /\ req[r].pc = "idle" /\ req' = [req EXCEPT ![r] = Load(r, "set")]
            /\ UNCHANGED <<records, sessions, jar, named, overtaken>>

\* await redisClient.set: stored and answered, stored and the answer lost, failed.
RecordSet(r) ==
  /\ req[r].pc = "set"
  /\ \/ records' = [records EXCEPT ![r] = "live"] /\ Goto(r, "save")
     \/ records' = [records EXCEPT ![r] = "live"] /\ Goto(r, "over")
     \/ UNCHANGED records /\ Goto(r, "over")
  /\ UNCHANGED <<sessions, jar, named, overtaken>>

\* What a request drops from its session that it never saw.
Unseen(r) == {sessions[req[r].mine]} \ {None, req[r].identity}

\* request.session.identity and the cookie; the session is stored, then the
\* response goes out.
LoginSaves(r) ==
  /\ req[r].pc = "save" /\ sessions' = [sessions EXCEPT ![req[r].mine] = r]
  /\ named' = named \cup {r}
  /\ overtaken' = overtaken \cup Unseen(r) \cup ({req[r].identity} \ {None})
  /\ Goto(r, "login") /\ UNCHANGED <<records, jar>>

Logout(r) == /\ req[r].pc = "idle"
             /\ \E load \in {Load(r, "del")} :
                  req' = [req EXCEPT ![r] = IF load.identity # None THEN load
                                            ELSE [load EXCEPT !.pc = "destroy"]]
             /\ UNCHANGED <<records, sessions, jar, named, overtaken>>

\* Mutant: a failed delete is not an error.
RecordDeletedAnyway(r) ==
  /\ req[r].pc = "del"
  /\ \E left \in {records[req[r].identity], "none"} :
       records' = [records EXCEPT ![req[r].identity] = left]
  /\ Goto(r, "destroy") /\ UNCHANGED <<sessions, jar, named, overtaken>>

RecordDeleted(r) ==
  /\ req[r].pc = "del"
  /\ \/ records' = [records EXCEPT ![req[r].identity] = "none"]
        /\ \E pc \in {"destroy", "over"} : Goto(r, pc)
     \/ UNCHANGED records /\ Goto(r, "over")
  /\ UNCHANGED <<sessions, jar, named, overtaken>>

SessionDestroyed(r) ==
  /\ req[r].pc = "destroy"
  /\ \/ /\ sessions' = [sessions EXCEPT ![req[r].mine] = None]
        /\ overtaken' = overtaken \cup Unseen(r) /\ Goto(r, "logout")
     \/ UNCHANGED <<sessions, overtaken>> /\ Goto(r, "over")
  /\ UNCHANGED <<records, jar, named>>

\* The answers reach the browser, in any order, and set or clear its cookies.
Answered(r) ==
  /\ req[r].pc \in {"login", "logout"}
  /\ jar' = IF req[r].pc = "login" THEN [example |-> req[r].mine, gateway |-> r]
                                   ELSE [example |-> None, gateway |-> None]
  /\ Goto(r, "over") /\ UNCHANGED <<records, sessions, named, overtaken>>

\* GET /api/session: deletes a record that is revoked or past its time.
Lookup(r) == /\ req[r].pc = "idle"
             /\ \E load \in {Load(r, "get")} :
                  req' = [req EXCEPT ![r] = IF load.identity # None THEN load
                                            ELSE [load EXCEPT !.pc = "over"]]
             /\ UNCHANGED <<records, sessions, jar, named, overtaken>>
LookupReads(r) ==
  /\ req[r].pc = "get"
  /\ records' = [records EXCEPT ![req[r].identity] = IF @ = "dead" THEN "none" ELSE @]
  /\ Goto(r, "over") /\ UNCHANGED <<sessions, jar, named, overtaken>>

\* Time passes or an operator revokes; Redis drops a record at its TTL.
Ages(r) == /\ records[r] # "none"
           /\ records' = [records EXCEPT ![r] = IF @ = "live" THEN "dead" ELSE "none"]
           /\ UNCHANGED <<sessions, jar, req, named, overtaken>>

Next == \E r \in Requests :
          \/ Login(r) \/ RecordSet(r) \/ LoginSaves(r)
          \/ Logout(r) \/ RecordDeleted(r) \/ SessionDestroyed(r)
          \/ Answered(r) \/ Lookup(r) \/ LookupReads(r) \/ Ages(r)

Spec == Init /\ [][Next]_vars
-----------------------------------------------------------------------------
\* A login the gateway would still accept can still be logged out
\* (app.mjs:167): its record is named by a stored session, unless a later login
\* replaced it or an overlapping request dropped it unseen.  A logout that
\* fails half-way never leaves a live record that no session names.
LiveLoginIsReachable ==
  \A r \in named : records[r] = "live" =>
     r \in overtaken \/ \E s \in Requests : sessions[s] = r
=============================================================================
