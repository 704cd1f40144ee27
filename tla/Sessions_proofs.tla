-------------------------- MODULE Sessions_proofs --------------------------
(***************************************************************************)
(* Proofs about Sessions, for any number of users, clients and tokens:     *)
(* type correctness, and what the database and the player list keep of a   *)
(* session while the server restarts and clients come and go.              *)
(***************************************************************************)
EXTENDS Sessions, TLAPS

(***************************************************************************)
(* TypeOK by the part of the program that keeps the variables.             *)
(***************************************************************************)
AnyMsg == Msgs \cup {NoMsg}
Requested == (Kinds \ {"play"}) \cup {"none"}

DbOK ==
  /\ users \subseteq Users /\ sessions \in [Tokens -> UserOrNone]
  /\ expired \subseteq Tokens /\ made \in 0..MaxToken

RouterOK ==
  /\ job \in Jobs \cup {NoJob}
  /\ step \in {"idle", "authenticate", "unlist", "answer", "list"}
  /\ step = "idle" <=> job = NoJob

ListsOK ==
  /\ connUser \in [Clients -> UserOrNone]
  /\ listed \in [Users -> Clients \cup {Nobody}]

NetOK ==
  /\ link \in [Clients -> {"off", "up", "cut", "left"}]
  /\ asked \in [Clients -> AnyMsg] /\ answer \in [Clients -> AnyMsg]

ProgramsOK ==
  /\ pending \in [Clients -> Requested] /\ me \in [Clients -> UserOrNone]
  /\ token \in [Clients -> Held] /\ file \in [Clients -> TokenOrNone]
  /\ closed \subseteq Held /\ leaving \in [Clients -> SUBSET Held]

TypesOK == DbOK /\ RouterOK /\ ListsOK /\ NetOK /\ ProgramsOK

(***************************************************************************)
(* The strengthening.  Much of it holds only of the clients that wait for  *)
(* the answer before they ask again.                                       *)
(***************************************************************************)
Patient == Clients \ Hasty

AuthKinds == {"register", "login", "validate"}
LoginOK(m) == m.kind \in {"login", "validate"} /\ m.ok

\* The handler works for c and has not answered yet.
Busy(c) == job.c = c /\ step \in {"authenticate", "unlist", "answer"}

\* What a success is a success of.
Answerable(m) ==
  /\ LoginOK(m) => m.u \in Users
  /\ m.kind = "login" /\ m.ok => m.t \in Tokens

\* Which message the handler can be at a step with.
JobInv ==
  /\ step \in {"authenticate", "list"} => LoginOK(job.m)
  /\ step = "unlist" => job.m.kind = "logout"
  /\ Answerable(job.m)
  /\ \A c \in Clients :
       /\ ~asked[c].ok /\ Answerable(answer[c])
       /\ asked[c].kind = "register" => asked[c].u \in Users

\* Without a program there is nobody logged in, and without the server's end of
\* the connection nothing of the client is left to be handled.
Wire(c) ==
  /\ link[c] \in {"off", "left"} =>
       me[c] = Nobody /\ token[c] = Nobody /\ answer[c] = NoMsg
  /\ link[c] \in {"off", "cut"} => asked[c] = NoMsg /\ job.c # c

WireInv == \A c \in Clients : Wire(c)

\* Between a request and its answer there is one message of a patient client.
Pipe(c) ==
  /\ asked[c].kind # "none" => answer[c] = NoMsg /\ ~Busy(c)
  /\ answer[c].kind # "none" => ~Busy(c) /\ pending[c] = answer[c].kind
  /\ link[c] = "up" /\ asked[c].kind \notin {"none", "play"} =>
       pending[c] = asked[c].kind
  /\ link[c] = "up" /\ asked[c].kind = "play" => pending[c] = "none"
  /\ link[c] = "up" /\ Busy(c) => pending[c] = job.m.kind
  /\ \/ asked[c].kind \in AuthKinds
     \/ Busy(c) /\ job.m.kind \in AuthKinds
     \/ answer[c].kind \in AuthKinds
     => me[c] = Nobody

PipeInv == \A c \in Patient : Pipe(c)

\* A token that a client is about to log out with.
LeavingInv ==
  \A c \in Clients :
    link[c] = "up" /\ asked[c].kind = "logout" => asked[c].t \in leaving[c]

\* A token is with one client: in its memory, its file or one of its messages.
Holds(c, t) ==
  \/ token[c] = t \/ file[c] = t \/ asked[c].t = t \/ answer[c].t = t
  \/ job.c = c /\ job.m.t = t

TokenInv ==
  \A t \in Tokens :
    /\ \A c \in Clients : Holds(c, t) => t <= made
    /\ \A c, d \in Clients : Holds(c, t) /\ Holds(d, t) => c = d

\* What the table sessions says of a token that is with a client.
Alive(t) == t \in Tokens \ expired
Gone(t) == t \in Tokens => t <= made /\ sessions[t] = Nobody

Session(c) ==
  /\ /\ me[c] # Nobody /\ Alive(token[c])
     /\ token[c] \notin leaving[c] \/ (c \in Patient /\ pending[c] = "none")
     => sessions[token[c]] = me[c]
  /\ /\ answer[c].kind = "login" /\ answer[c].ok /\ Alive(answer[c].t)
     /\ answer[c].t \notin leaving[c] \/ c \in Patient
     => sessions[answer[c].t] = answer[c].u
  /\ answer[c].kind = "logout" => Gone(answer[c].t)

JobSession ==
  /\ job.m.kind = "login" /\ step \in {"authenticate", "answer"} /\ job.m.ok
       /\ Alive(job.m.t) => sessions[job.m.t] = job.m.u
  /\ job.m.kind = "logout" => Gone(job.m.t)

ClosedGone == \A t \in closed : Gone(t)

SessionInv == (\A c \in Clients : Session(c)) /\ JobSession /\ ClosedGone

\* Until a logout is asked for, the session names the user of the connection.
LogoutInv ==
  \A c \in Patient :
    asked[c].kind = "logout" /\ Alive(asked[c].t)
      => sessions[asked[c].t] = connUser[c]

\* Whom the connection stands for.
ConnInv ==
  /\ step = "unlist" /\ job.c \in Patient => job.m.u = connUser[job.c]
  /\ step \in {"answer", "list"} /\ LoginOK(job.m) => connUser[job.c] = job.m.u
  /\ \A c \in Patient :
       /\ link[c] = "up" /\ me[c] # Nobody => connUser[c] = me[c]
       /\ link[c] = "up" /\ LoginOK(answer[c]) => connUser[c] = answer[c].u

\* While addPlayer is due, the client can have been answered, no more.
Listing(c) ==
  job.c = c /\ step = "list" =>
    /\ asked[c].kind \notin AuthKinds
    /\ answer[c] = NoMsg \/ LoginOK(answer[c])
    /\ link[c] = "up" => me[c] # Nobody \/ LoginOK(answer[c])

ListingInv == \A c \in Patient : Listing(c)

\* Before it is logged in, and after, a client is not in the player list.
Unlisted(c) == \A u \in Users : listed[u] # c
LoggedOut(c) ==
  \/ asked[c].kind \in AuthKinds
  \/ Busy(c) /\ job.m.kind \in AuthKinds
  \/ Busy(c) /\ step = "answer"
  \/ link[c] = "up" /\ answer[c].kind # "none" /\ ~LoginOK(answer[c])
  \/ link[c] = "up" /\ me[c] = Nobody /\ pending[c] = "none"
  \/ link[c] \in {"off", "cut"}

UnlistedInv == \A c \in Patient : LoggedOut(c) => Unlisted(c)

Inv ==
  /\ TypesOK /\ JobInv /\ WireInv /\ PipeInv /\ LeavingInv /\ TokenInv
  /\ SessionInv /\ LogoutInv
  /\ ConnInv /\ ListingInv /\ UnlistedInv /\ EntryOfConnection

-----------------------------------------------------------------------------
(* Lemmas about messages and about the invariant.                          *)

\* The fields of a message, and of none.
LEMMA MsgFields ==
  ASSUME NEW m \in AnyMsg
  PROVE  /\ m.kind \in Kinds \cup {"none"} /\ m.u \in UserOrNone
         /\ m.t \in Held /\ m.ok \in BOOLEAN
         /\ m.kind = "none" <=> m = NoMsg
<1>1. NoMsg.kind = "none" /\ NoMsg.u = Nobody /\ NoMsg.t = Nobody /\ NoMsg.ok = FALSE
  BY DEF NoMsg
<1>2. CASE m = NoMsg
  BY <1>1, <1>2 DEF UserOrNone, Held, TokenOrNone
<1>3. CASE m \in Msgs
  BY <1>1, <1>3 DEF Msgs, Kinds
<1>4. QED
  BY <1>2, <1>3 DEF AnyMsg

\* A new message is typed.
LEMMA MsgTyped ==
  ASSUME NEW k \in Kinds, NEW u \in UserOrNone, NEW t \in Held,
         NEW b \in BOOLEAN
  PROVE  [kind |-> k, u |-> u, t |-> t, ok |-> b] \in AnyMsg
BY DEF AnyMsg, Msgs

\* The job of a handler that runs.
LEMMA JobFields ==
  ASSUME RouterOK
  PROVE  /\ job.m \in AnyMsg
         /\ step # "idle" => job.c \in Clients /\ job.m \in Msgs
         /\ step = "idle" => job = NoJob /\ job.c = Nobody /\ job.m = NoMsg
BY DEF RouterOK, Jobs, NoJob, AnyMsg

\* Tokens are no usernames, and none is Nobody.
LEMMA TokensApart ==
  /\ Nobody \notin Tokens /\ Nobody \notin Users /\ Nobody \notin Clients
  /\ \A u \in Users : u \notin Tokens
BY SessionsAssumption DEF Tokens

\* A step that makes no token and takes none to another client.
LEMMA TokensStay ==
  ASSUME TokenInv, made' = made,
         \A c \in Clients, t \in Tokens : Holds(c, t)' => Holds(c, t)
  PROVE  TokenInv'
BY DEF TokenInv

\* The fields of the messages on their way.
LEMMA NetFields ==
  ASSUME NetOK, NEW c \in Clients
  PROVE  /\ asked[c].kind \in Kinds \cup {"none"} /\ asked[c].u \in UserOrNone
         /\ asked[c].t \in Held /\ asked[c].ok \in BOOLEAN
         /\ asked[c].kind = "none" <=> asked[c] = NoMsg
         /\ answer[c].kind \in Kinds \cup {"none"}
         /\ answer[c].u \in UserOrNone
         /\ answer[c].t \in Held /\ answer[c].ok \in BOOLEAN
         /\ answer[c].kind = "none" <=> answer[c] = NoMsg
<1>1. asked[c] \in AnyMsg /\ answer[c] \in AnyMsg
  BY DEF NetOK
<1>2. QED
  BY <1>1, MsgFields

\* No message is of no kind.
LEMMA NoMsgFields ==
  /\ NoMsg.kind = "none" /\ NoMsg.u = Nobody /\ NoMsg.t = Nobody
  /\ NoMsg.ok = FALSE
  /\ NoMsg \in AnyMsg /\ NoJob.c = Nobody /\ NoJob.m = NoMsg
BY DEF NoMsg, AnyMsg, NoJob

\* The auto-login finds no server.
LEMMA StartFailsStep ==
  ASSUME Inv, NEW c \in Clients, StartFails(c)
  PROVE  Inv'
<1> USE DEF Inv, TypesOK, Patient
<1>1. /\ UNCHANGED <<dbVars, serverVars, netVars, pending, me, token, closed, leaving>>
      /\ file' = [file EXCEPT ![c] = Nobody]
  BY DEF StartFails, ClearSession
<1>2. DbOK'
  BY <1>1 DEF DbOK, dbVars
<1>3. RouterOK'
  BY <1>1 DEF RouterOK, serverVars
<1>4. ListsOK'
  BY <1>1 DEF ListsOK, serverVars
<1>5. NetOK'
  BY <1>1 DEF NetOK, netVars
<1>6. ProgramsOK'
  BY <1>1 DEF ProgramsOK, TokenOrNone
<1>7. JobInv'
  BY <1>1 DEF JobInv, serverVars, netVars
<1>w. WireInv'
  BY <1>1
     DEF WireInv, Wire, serverVars, netVars
<1>l. LeavingInv'
  BY <1>1
     DEF LeavingInv, serverVars, netVars
<1>8. PipeInv'
  <2> SUFFICES ASSUME NEW d \in Patient PROVE Pipe(d)'
    BY DEF PipeInv
  <2>1. Pipe(d) /\ d \in Clients
    BY DEF PipeInv, Patient
  <2>2. QED
    BY <1>1, <2>1 DEF Pipe, Busy, serverVars, netVars
<1>9. TokenInv'
  BY <1>1, TokensApart, TokensStay DEF Holds, dbVars, serverVars, netVars
<1>10. (\A d \in Clients : Session(d))'
  BY <1>1 DEF SessionInv, Session, Alive, Gone, dbVars, netVars
<1>11. JobSession'
  BY <1>1 DEF SessionInv, JobSession, Alive, Gone, dbVars, serverVars
<1>12. ClosedGone'
  BY <1>1 DEF SessionInv, ClosedGone, Gone, dbVars
<1>13. LogoutInv'
  BY <1>1 DEF LogoutInv, Alive, dbVars, serverVars, netVars
<1>14. EntryOfConnection'
  BY <1>1 DEF EntryOfConnection, serverVars
<1>15. ConnInv'
  BY <1>1 DEF ConnInv, serverVars, netVars
<1>16. ListingInv'
  BY <1>1 DEF ListingInv, Listing, serverVars, netVars
<1>17. UnlistedInv'
  BY <1>1 DEF UnlistedInv, Unlisted, LoggedOut, Busy, serverVars, netVars
<1>18. QED
  BY <1>2, <1>3, <1>4, <1>5, <1>6, <1>7, <1>8, <1>9, <1>10, <1>11, <1>12,
     <1>13, <1>14, <1>15, <1>16, <1>17, <1>w, <1>l
     DEF SessionInv

\* The program ends.
LEMMA QuitStep ==
  ASSUME Inv, NEW c \in Clients, Quit(c)
  PROVE  Inv'
<1> USE DEF Inv, TypesOK, Patient
<1>1. /\ UNCHANGED <<dbVars, serverVars, asked, file, closed>>
      /\ leaving' = [leaving EXCEPT ![c] = {}]
      /\ link[c] \in {"up", "cut"}
      /\ link' = [link EXCEPT ![c] = IF link[c] = "up" THEN "left" ELSE "off"]
      /\ answer' = [answer EXCEPT ![c] = NoMsg]
      /\ pending' = [pending EXCEPT ![c] = "none"]
      /\ me' = [me EXCEPT ![c] = Nobody]
      /\ token' = [token EXCEPT ![c] = Nobody]
  BY DEF Quit
<1>2. DbOK'
  BY <1>1 DEF DbOK, dbVars
<1>3. RouterOK'
  BY <1>1 DEF RouterOK, serverVars
<1>4. ListsOK'
  BY <1>1 DEF ListsOK, serverVars
<1>5. NetOK'
  BY <1>1, NoMsgFields DEF NetOK
<1>6. ProgramsOK'
  BY <1>1 DEF ProgramsOK, UserOrNone, Held, TokenOrNone, Requested
<1>7. JobInv'
  BY <1>1, NoMsgFields DEF JobInv, Answerable, LoginOK, serverVars
<1>w. WireInv'
  BY <1>1, NoMsgFields
     DEF WireInv, Wire, serverVars, NetOK, ProgramsOK
<1>l. LeavingInv'
  BY <1>1, NoMsgFields
     DEF LeavingInv, serverVars, NetOK, ProgramsOK
<1>8. PipeInv'
  <2> SUFFICES ASSUME NEW d \in Patient PROVE Pipe(d)'
    BY DEF PipeInv
  <2>1. Pipe(d) /\ d \in Clients
    BY DEF PipeInv, Patient
  <2>2. QED
    BY <1>1, NoMsgFields, <2>1 DEF Pipe, Busy, serverVars, NetOK, ProgramsOK
<1>9. TokenInv'
  BY <1>1, NoMsgFields, TokensApart, TokensStay DEF Holds, dbVars, serverVars
<1>10. (\A d \in Clients : Session(d))'
  <2> SUFFICES ASSUME NEW d \in Clients PROVE Session(d)'
    BY Zenon
  <2>1. Session(d) /\ sessions' = sessions /\ expired' = expired /\ made' = made
    BY <1>1 DEF SessionInv, dbVars
  <2>2. CASE d = c
    <3>1. me'[c] = Nobody /\ answer'[c] = NoMsg
      BY <1>1 DEF ProgramsOK, NetOK
    <3>2. QED
      BY <2>2, <3>1, NoMsgFields DEF Session
  <2>3. CASE d # c
    <3>1. /\ me'[d] = me[d] /\ token'[d] = token[d] /\ answer'[d] = answer[d]
          /\ pending'[d] = pending[d] /\ leaving'[d] = leaving[d]
      BY <1>1, <2>3 DEF ProgramsOK, NetOK
    <3>2. QED
      BY <2>1, <3>1 DEF Session, Alive, Gone
  <2>4. QED
    BY <2>2, <2>3
<1>11. JobSession'
  BY <1>1 DEF SessionInv, JobSession, Alive, Gone, dbVars, serverVars
<1>12. ClosedGone'
  BY <1>1 DEF SessionInv, ClosedGone, Gone, dbVars
<1>13. LogoutInv'
  BY <1>1 DEF LogoutInv, Alive, dbVars, serverVars
<1>14. EntryOfConnection'
  BY <1>1 DEF EntryOfConnection, serverVars
<1>15. ConnInv'
  BY <1>1 DEF ConnInv, serverVars, NetOK
<1>16. ListingInv'
  BY <1>1 DEF ListingInv, Listing, serverVars, NetOK
<1>17. UnlistedInv'
  BY <1>1 DEF UnlistedInv, Unlisted, LoggedOut, Busy, serverVars, NetOK
<1>18. QED
  BY <1>2, <1>3, <1>4, <1>5, <1>6, <1>7, <1>8, <1>9, <1>10, <1>11, <1>12,
     <1>13, <1>14, <1>15, <1>16, <1>17, <1>w, <1>l
     DEF SessionInv

\* The program starts, with a VALIDATE_SESSION if it has a token.
LEMMA StartStep ==
  ASSUME Inv, NEW c \in Clients, Start(c)
  PROVE  Inv'
<1> USE DEF Inv, TypesOK, Patient
<1>1. /\ UNCHANGED <<dbVars, serverVars, answer, me, token, file, closed, leaving>>
      /\ link[c] = "off" /\ link' = [link EXCEPT ![c] = "up"]
  BY DEF Start
<1>2. me[c] = Nobody /\ answer[c] = NoMsg /\ asked[c] = NoMsg /\ job.c # c
  BY <1>1 DEF WireInv, Wire
<1>3. PICK m \in AnyMsg, w \in Requested :
        /\ asked' = [asked EXCEPT ![c] = m]
        /\ pending' = [pending EXCEPT ![c] = w]
        /\ \/ m.kind = "none" /\ m = NoMsg /\ ~m.ok /\ m.t = Nobody /\ w = pending[c]
           \/ m.kind = "validate" /\ m.t = file[c] /\ ~m.ok /\ w = "validate"
  <2>1. CASE HasStoredSession(c)
    <3>1. file[c] \in Held
      BY DEF ProgramsOK, Held
    <3>2. Msg("validate", Nobody, file[c]) \in AnyMsg
      BY <3>1, MsgTyped DEF Msg, Kinds, UserOrNone
    <3>3. /\ asked' = [asked EXCEPT ![c] = Msg("validate", Nobody, file[c])]
          /\ pending' = [pending EXCEPT ![c] = "validate"]
      BY <2>1 DEF Start
    <3>4. QED
      BY <3>2, <3>3 DEF Msg, Requested, Kinds
  <2>2. CASE ~HasStoredSession(c)
    <3>1. asked' = [asked EXCEPT ![c] = NoMsg]
      BY <1>2, <2>2 DEF Start, NetOK
    <3>2. pending' = [pending EXCEPT ![c] = pending[c]] /\ pending[c] \in Requested
      BY <2>2, Zenon DEF Start, ProgramsOK
    <3>3. QED
      BY <3>1, <3>2, NoMsgFields
  <2>3. QED
    BY <2>1, <2>2
<1>4. DbOK'
  BY <1>1 DEF DbOK, dbVars
<1>5. RouterOK'
  BY <1>1 DEF RouterOK, serverVars
<1>6. ListsOK'
  BY <1>1 DEF ListsOK, serverVars
<1>7. NetOK'
  BY <1>1, <1>3 DEF NetOK
<1>8. ProgramsOK'
  BY <1>1, <1>3 DEF ProgramsOK
<1>9. JobInv'
  BY <1>1, <1>3 DEF JobInv, serverVars
<1>w. WireInv'
  BY <1>1, <1>3
     DEF WireInv, Wire, serverVars, NetOK, ProgramsOK
<1>l. LeavingInv'
  BY <1>1, <1>3
     DEF LeavingInv, serverVars, NetOK, ProgramsOK
<1>10. PipeInv'
  <2> SUFFICES ASSUME NEW d \in Patient PROVE Pipe(d)'
    BY DEF PipeInv
  <2>1. Pipe(d) /\ d \in Clients
    BY DEF PipeInv, Patient
  <2>2. QED
    BY <1>1, <1>2, <1>3, <2>1, NoMsgFields
       DEF Pipe, Busy, AuthKinds, serverVars, NetOK, ProgramsOK
<1>11. TokenInv'
  BY <1>1, <1>3, TokensApart, TokensStay DEF Holds, dbVars, serverVars
<1>12. (\A d \in Clients : Session(d))'
  BY <1>1, <1>3 DEF SessionInv, Session, Alive, Gone, dbVars
<1>13. JobSession'
  BY <1>1 DEF SessionInv, JobSession, Alive, Gone, dbVars, serverVars
<1>14. ClosedGone'
  BY <1>1 DEF SessionInv, ClosedGone, Gone, dbVars
<1>15. LogoutInv'
  BY <1>1, <1>3 DEF LogoutInv, Alive, dbVars, serverVars
<1>16. EntryOfConnection'
  BY <1>1 DEF EntryOfConnection, serverVars
<1>17. ConnInv'
  BY <1>1, <1>2, NoMsgFields DEF ConnInv, LoginOK, serverVars
<1>18. ListingInv'
  BY <1>1, <1>2, <1>3 DEF ListingInv, Listing, serverVars
<1>19. UnlistedInv'
  BY <1>1, <1>3 DEF UnlistedInv, Unlisted, LoggedOut, Busy, serverVars
<1>20. QED
  BY <1>4, <1>5, <1>6, <1>7, <1>8, <1>9, <1>10, <1>11, <1>12, <1>13, <1>14,
     <1>15, <1>16, <1>17, <1>18, <1>19, <1>w, <1>l
     DEF SessionInv

\* setAuthenticated
LEMMA AuthenticateStep ==
  ASSUME Inv, Authenticate
  PROVE  Inv'
<1> USE DEF Inv, TypesOK, Patient
<1>1. /\ step = "authenticate" /\ step' = "answer"
      /\ connUser' = [connUser EXCEPT ![job.c] = job.m.u]
      /\ UNCHANGED <<dbVars, job, listed, netVars, clientVars>>
  BY DEF Authenticate
<1>2. /\ job.c \in Clients /\ job.m \in Msgs /\ job # NoJob
      /\ job.m \in AnyMsg /\ job.m.kind \in Kinds /\ job.m.u \in UserOrNone
  BY <1>1, JobFields DEF RouterOK, Msgs
<1>3. LoginOK(job.m) /\ job.m.u \in Users
  BY <1>1 DEF JobInv, Answerable
<1>4. job.c \in Patient =>
        /\ me[job.c] = Nobody /\ asked[job.c] = NoMsg /\ answer[job.c] = NoMsg
        /\ Unlisted(job.c)
  BY <1>1, <1>2, <1>3, NetFields
     DEF PipeInv, Pipe, Busy, LoginOK, AuthKinds, UnlistedInv, LoggedOut
<1>5. DbOK'
  BY <1>1 DEF DbOK, dbVars
<1>6. RouterOK'
  BY <1>1 DEF RouterOK
<1>7. ListsOK'
  BY <1>1, <1>2 DEF ListsOK
<1>8. NetOK'
  BY <1>1 DEF NetOK, netVars
<1>9. ProgramsOK'
  BY <1>1 DEF ProgramsOK, clientVars
<1>10. JobInv'
  BY <1>1 DEF JobInv, netVars
<1>w. WireInv'
  BY <1>1
     DEF WireInv, Wire, netVars, clientVars
<1>l. LeavingInv'
  BY <1>1
     DEF LeavingInv, netVars, clientVars
<1>11. PipeInv'
  <2> SUFFICES ASSUME NEW d \in Patient PROVE Pipe(d)'
    BY DEF PipeInv
  <2>1. Pipe(d) /\ d \in Clients
    BY DEF PipeInv, Patient
  <2>2. QED
    BY <1>1, <2>1 DEF Pipe, Busy, netVars, clientVars
<1>12. TokenInv'
  BY <1>1, TokensStay DEF Holds, dbVars, netVars, clientVars
<1>13. (\A d \in Clients : Session(d))'
  BY <1>1 DEF SessionInv, Session, Alive, Gone, dbVars, netVars, clientVars
<1>14. JobSession'
  BY <1>1 DEF SessionInv, JobSession, Alive, Gone, dbVars
<1>15. ClosedGone'
  BY <1>1 DEF SessionInv, ClosedGone, Gone, dbVars, clientVars
<1>16. LogoutInv'
  BY <1>1, <1>4, NoMsgFields DEF LogoutInv, Alive, dbVars, netVars
<1>17. EntryOfConnection'
  BY <1>1, <1>4 DEF EntryOfConnection, Unlisted
<1>18. ConnInv'
  BY <1>1, <1>2, <1>4, NoMsgFields
     DEF ConnInv, LoginOK, netVars, clientVars, ListsOK
<1>19. ListingInv'
  BY <1>1 DEF ListingInv, Listing
<1>20. UnlistedInv'
  BY <1>1, <1>4 DEF UnlistedInv, Unlisted, LoggedOut, Busy, netVars, clientVars
<1>21. QED
  BY <1>5, <1>6, <1>7, <1>8, <1>9, <1>10, <1>11, <1>12, <1>13, <1>14, <1>15,
     <1>16, <1>17, <1>18, <1>19, <1>20, <1>w, <1>l
     DEF SessionInv

\* removePlayer
LEMMA UnlistStep ==
  ASSUME Inv, Unlist
  PROVE  Inv'
<1> USE DEF Inv, TypesOK, Patient
<1>1. /\ step = "unlist" /\ step' = "answer"
      /\ listed' = [u \in Users |-> IF u = job.m.u THEN Nobody ELSE listed[u]]
      /\ UNCHANGED <<dbVars, job, connUser, netVars, clientVars>>
  BY DEF Unlist
<1>2. /\ job.c \in Clients /\ job.m \in Msgs /\ job # NoJob
      /\ job.m \in AnyMsg /\ job.m.kind \in Kinds /\ job.m.u \in UserOrNone
  BY <1>1, JobFields DEF RouterOK, Msgs
<1>3. job.m.kind = "logout" /\ (job.c \in Patient => job.m.u = connUser[job.c])
  BY <1>1 DEF JobInv, ConnInv
<1>4. DbOK'
  BY <1>1 DEF DbOK, dbVars
<1>5. RouterOK'
  BY <1>1 DEF RouterOK
<1>6. ListsOK'
  BY <1>1 DEF ListsOK
<1>7. NetOK'
  BY <1>1 DEF NetOK, netVars
<1>8. ProgramsOK'
  BY <1>1 DEF ProgramsOK, clientVars
<1>9. JobInv'
  BY <1>1 DEF JobInv, netVars
<1>w. WireInv'
  BY <1>1
     DEF WireInv, Wire, netVars, clientVars
<1>l. LeavingInv'
  BY <1>1
     DEF LeavingInv, netVars, clientVars
<1>10. PipeInv'
  <2> SUFFICES ASSUME NEW d \in Patient PROVE Pipe(d)'
    BY DEF PipeInv
  <2>1. Pipe(d) /\ d \in Clients
    BY DEF PipeInv, Patient
  <2>2. QED
    BY <1>1, <2>1 DEF Pipe, Busy, netVars, clientVars
<1>11. TokenInv'
  BY <1>1, TokensStay DEF Holds, dbVars, netVars, clientVars
<1>12. (\A d \in Clients : Session(d))'
  BY <1>1 DEF SessionInv, Session, Alive, Gone, dbVars, netVars, clientVars
<1>13. JobSession'
  BY <1>1, <1>3 DEF SessionInv, JobSession, Gone, dbVars
<1>14. ClosedGone'
  BY <1>1 DEF SessionInv, ClosedGone, Gone, dbVars, clientVars
<1>15. LogoutInv'
  BY <1>1 DEF LogoutInv, Alive, dbVars, netVars
<1>16. EntryOfConnection'
  BY <1>1, TokensApart DEF EntryOfConnection, ListsOK
<1>17. ConnInv'
  BY <1>1, <1>3 DEF ConnInv, LoginOK, netVars, clientVars
<1>18. ListingInv'
  BY <1>1 DEF ListingInv, Listing
<1>19. UnlistedInv'
  <2> SUFFICES ASSUME NEW d \in Patient, LoggedOut(d)' PROVE Unlisted(d)'
    BY DEF UnlistedInv
  <2>1. CASE d = job.c
    BY <1>1, <1>3, <2>1, TokensApart DEF EntryOfConnection, Unlisted
  <2>2. CASE d # job.c
    <3>1. Unlisted(d)
      BY <1>1, <2>2 DEF UnlistedInv, LoggedOut, Busy, netVars, clientVars
    <3>2. QED
      BY <1>1, <3>1, TokensApart DEF Unlisted
  <2>3. QED
    BY <2>1, <2>2
<1>20. QED
  BY <1>4, <1>5, <1>6, <1>7, <1>8, <1>9, <1>10, <1>11, <1>12, <1>13, <1>14,
     <1>15, <1>16, <1>17, <1>18, <1>19, <1>w, <1>l
     DEF SessionInv

\* addPlayer
LEMMA ListStep ==
  ASSUME Inv, List
  PROVE  Inv'
<1> USE DEF Inv, TypesOK, Patient
<1>1. /\ step = "list" /\ step' = "idle" /\ job' = NoJob
      /\ listed' = [listed EXCEPT ![job.m.u] = job.c]
      /\ UNCHANGED <<dbVars, connUser, netVars, clientVars>>
  BY DEF List
<1>2. /\ job.c \in Clients /\ job.m \in Msgs /\ job # NoJob
      /\ job.m \in AnyMsg /\ job.m.kind \in Kinds /\ job.m.u \in UserOrNone
  BY <1>1, JobFields DEF RouterOK, Msgs
<1>3. job.m.u \in Users /\ connUser[job.c] = job.m.u
  BY <1>1 DEF JobInv, Answerable, ConnInv
<1>4. DbOK'
  BY <1>1 DEF DbOK, dbVars
<1>5. RouterOK'
  BY <1>1 DEF RouterOK
<1>6. ListsOK'
  BY <1>1, <1>2 DEF ListsOK
<1>7. NetOK'
  BY <1>1 DEF NetOK, netVars
<1>8. ProgramsOK'
  BY <1>1 DEF ProgramsOK, clientVars
<1>9. JobInv'
  BY <1>1, NoMsgFields DEF JobInv, Answerable, LoginOK, netVars
<1>w. WireInv'
  BY <1>1, NoMsgFields, TokensApart
     DEF WireInv, Wire, netVars, clientVars
<1>l. LeavingInv'
  BY <1>1, NoMsgFields, TokensApart
     DEF LeavingInv, netVars, clientVars
<1>10. PipeInv'
  <2> SUFFICES ASSUME NEW d \in Patient PROVE Pipe(d)'
    BY DEF PipeInv
  <2>1. Pipe(d) /\ d \in Clients
    BY DEF PipeInv, Patient
  <2>2. QED
    BY <1>1, NoMsgFields, TokensApart, <2>1 DEF Pipe, Busy, netVars, clientVars
<1>11. TokenInv'
  BY <1>1, NoMsgFields, TokensApart, TokensStay
     DEF Holds, dbVars, netVars, clientVars
<1>12. (\A d \in Clients : Session(d))'
  BY <1>1 DEF SessionInv, Session, Alive, Gone, dbVars, netVars, clientVars
<1>13. JobSession'
  BY <1>1, NoMsgFields DEF JobSession
<1>14. ClosedGone'
  BY <1>1 DEF SessionInv, ClosedGone, Gone, dbVars, clientVars
<1>15. LogoutInv'
  BY <1>1 DEF LogoutInv, Alive, dbVars, netVars
<1>16. EntryOfConnection'
  BY <1>1, <1>3 DEF EntryOfConnection
<1>17. ConnInv'
  BY <1>1 DEF ConnInv, netVars, clientVars
<1>18. ListingInv'
  BY <1>1 DEF ListingInv, Listing
<1>19. UnlistedInv'
  <2> SUFFICES ASSUME NEW d \in Patient, LoggedOut(d)' PROVE Unlisted(d)'
    BY DEF UnlistedInv
  <2>1. d # job.c
    <3>1. SUFFICES ASSUME d = job.c PROVE FALSE
      OBVIOUS
    <3>2. Listing(d) /\ Pipe(d) /\ Wire(d) /\ d \in Clients
      BY DEF ListingInv, PipeInv, WireInv
    <3>3. QED
      BY <1>1, <3>1, <3>2, NetFields
         DEF Listing, Pipe, Wire, LoggedOut, LoginOK, Busy, netVars, clientVars
  <2>2. Unlisted(d)
    BY <1>1 DEF UnlistedInv, LoggedOut, Busy, netVars, clientVars
  <2>3. QED
    BY <1>1, <2>1, <2>2 DEF Unlisted
<1>20. QED
  BY <1>4, <1>5, <1>6, <1>7, <1>8, <1>9, <1>10, <1>11, <1>12, <1>13, <1>14,
     <1>15, <1>16, <1>17, <1>18, <1>19, <1>w, <1>l
     DEF SessionInv

\* The server stops and starts again.
LEMMA RestartStep ==
  ASSUME Inv, Restart
  PROVE  Inv'
<1> USE DEF Inv, TypesOK, Patient
<1>1. /\ job' = NoJob /\ step' = "idle"
      /\ connUser' = [c \in Clients |-> Nobody]
      /\ listed' = [u \in Users |-> Nobody]
      /\ asked' = [c \in Clients |-> NoMsg]
      /\ link' = [c \in Clients |-> IF link[c] = "up" THEN "cut"
                                ELSE IF link[c] = "left" THEN "off" ELSE link[c]]
      /\ UNCHANGED <<dbVars, answer, clientVars>>
  BY DEF Restart
<1>2. DbOK'
  BY <1>1 DEF DbOK, dbVars
<1>3. RouterOK'
  BY <1>1 DEF RouterOK
<1>4. ListsOK'
  BY <1>1 DEF ListsOK, UserOrNone
<1>5. NetOK'
  BY <1>1, NoMsgFields DEF NetOK
<1>6. ProgramsOK'
  BY <1>1 DEF ProgramsOK, clientVars
<1>7. JobInv'
  BY <1>1, NoMsgFields DEF JobInv, Answerable, LoginOK
<1>w. WireInv'
  BY <1>1, NoMsgFields, TokensApart
     DEF WireInv, Wire, clientVars
<1>l. LeavingInv'
  BY <1>1, NoMsgFields, TokensApart
     DEF LeavingInv, clientVars
<1>8. PipeInv'
  <2> SUFFICES ASSUME NEW d \in Patient PROVE Pipe(d)'
    BY DEF PipeInv
  <2>1. Pipe(d) /\ d \in Clients
    BY DEF PipeInv, Patient
  <2>2. QED
    BY <1>1, NoMsgFields, TokensApart, <2>1 DEF Pipe, Busy, clientVars
<1>9. TokenInv'
  BY <1>1, NoMsgFields, TokensApart, TokensStay DEF Holds, dbVars, clientVars
<1>10. (\A d \in Clients : Session(d))'
  BY <1>1 DEF SessionInv, Session, Alive, Gone, dbVars, clientVars
<1>11. JobSession'
  BY <1>1, NoMsgFields DEF JobSession
<1>12. ClosedGone'
  BY <1>1 DEF SessionInv, ClosedGone, Gone, dbVars, clientVars
<1>13. LogoutInv'
  BY <1>1, NoMsgFields DEF LogoutInv
<1>14. EntryOfConnection'
  BY <1>1, TokensApart DEF EntryOfConnection, ListsOK
<1>15. ConnInv'
  BY <1>1 DEF ConnInv
<1>16. ListingInv'
  BY <1>1 DEF ListingInv, Listing
<1>17. UnlistedInv'
  BY <1>1, TokensApart DEF UnlistedInv, Unlisted
<1>18. QED
  BY <1>2, <1>3, <1>4, <1>5, <1>6, <1>7, <1>8, <1>9, <1>10, <1>11, <1>12,
     <1>13, <1>14, <1>15, <1>16, <1>17, <1>w, <1>l
     DEF SessionInv

\* sendResponse
LEMMA AnswerStep ==
  ASSUME Inv, Answer
  PROVE  Inv'
<1> USE DEF Inv, TypesOK, Patient
<1>1. /\ step = "answer" /\ (link[job.c] = "up" => answer[job.c] = NoMsg)
      /\ answer' = [answer EXCEPT ![job.c] =
                       IF link[job.c] = "up" THEN job.m ELSE answer[job.c]]
      /\ UNCHANGED <<dbVars, connUser, listed, link, asked, clientVars>>
  BY DEF Answer
<1>2. \/ LoginOK(job.m) /\ step' = "list" /\ job' = job
      \/ ~LoginOK(job.m) /\ step' = "idle" /\ job' = NoJob
  BY DEF Answer, LoginOK
<1>3. /\ job.c \in Clients /\ job.m \in Msgs /\ job # NoJob
      /\ job.m \in AnyMsg /\ job.m.kind \in Kinds /\ job.m.u \in UserOrNone
  BY <1>1, JobFields DEF RouterOK, Msgs
<1>4. PICK c \in Clients : c = job.c
  BY <1>3
<1>5. /\ link[c] \notin {"off", "cut"} /\ Answerable(job.m)
      /\ c \in Patient =>
           /\ asked[c] = NoMsg /\ answer[c] = NoMsg
           /\ link[c] = "up" => pending[c] = job.m.kind
           /\ job.m.kind \in AuthKinds => me[c] = Nobody
           /\ Unlisted(c)
  BY <1>1, <1>4, NetFields
     DEF WireInv, Wire, PipeInv, Pipe, Busy, UnlistedInv, LoggedOut, JobInv
<1>6. DbOK'
  BY <1>1 DEF DbOK, dbVars
<1>7. RouterOK'
  BY <1>2, <1>4, NoMsgFields, TokensApart DEF RouterOK
<1>8. ListsOK'
  BY <1>1 DEF ListsOK
<1>9. NetOK'
  BY <1>1, <1>3 DEF NetOK
<1>10. ProgramsOK'
  BY <1>1 DEF ProgramsOK, clientVars
<1>11. JobInv'
  BY <1>1, <1>2, <1>4, <1>5, NoMsgFields DEF JobInv, Answerable, LoginOK, NetOK
<1>w. WireInv'
  BY <1>1, <1>2, NoMsgFields, TokensApart
     DEF WireInv, Wire, clientVars
<1>l. LeavingInv'
  BY <1>1, <1>2, NoMsgFields, TokensApart
     DEF LeavingInv, clientVars
<1>12. PipeInv'
  <2> SUFFICES ASSUME NEW d \in Patient PROVE Pipe(d)'
    BY DEF PipeInv
  <2>1. Pipe(d) /\ d \in Clients
    BY DEF PipeInv, Patient
  <2>2. QED
    BY <1>1, <1>2, NoMsgFields, TokensApart, <2>1 DEF Pipe, Busy, clientVars
<1>13. TokenInv'
  BY <1>1, <1>2, NoMsgFields, TokensApart, TokensStay
     DEF Holds, dbVars, clientVars
<1>14. (\A d \in Clients : Session(d))'
  BY <1>1 DEF SessionInv, Session, JobSession, Alive, Gone, dbVars, clientVars
<1>15. JobSession'
  BY <1>1, <1>2, NoMsgFields DEF SessionInv, JobSession, Gone, dbVars
<1>16. ClosedGone'
  BY <1>1 DEF SessionInv, ClosedGone, Gone, dbVars, clientVars
<1>17. LogoutInv'
  BY <1>1 DEF LogoutInv, Alive, dbVars
<1>18. EntryOfConnection'
  BY <1>1 DEF EntryOfConnection
<1>19. ConnInv'
  BY <1>1, <1>2 DEF ConnInv, clientVars
<1>20. ListingInv'
  BY <1>1, <1>2, <1>4, <1>5, NoMsgFields
     DEF ListingInv, Listing, AuthKinds, NetOK
<1>21. UnlistedInv'
  BY <1>1, <1>2 DEF UnlistedInv, Unlisted, LoggedOut, Busy, clientVars
<1>22. QED
  BY <1>6, <1>7, <1>8, <1>9, <1>10, <1>11, <1>12, <1>13, <1>14, <1>15, <1>16,
     <1>17, <1>18, <1>19, <1>20, <1>21, <1>w, <1>l
     DEF SessionInv

\* removeClient
LEMMA RemoveClientStep ==
  ASSUME Inv, NEW c \in Clients, RemoveClient(c)
  PROVE  Inv'
<1> USE DEF Inv, TypesOK, Patient
<1>1. /\ link[c] = "left" /\ asked[c] = NoMsg /\ job.c # c
      /\ listed' = [u \in Users |-> IF u = connUser[c] THEN Nobody ELSE listed[u]]
      /\ connUser' = [connUser EXCEPT ![c] = Nobody]
      /\ link' = [link EXCEPT ![c] = "off"]
      /\ UNCHANGED <<dbVars, job, step, asked, answer, clientVars>>
  BY DEF RemoveClient
<1>2. DbOK'
  BY <1>1 DEF DbOK, dbVars
<1>3. RouterOK'
  BY <1>1 DEF RouterOK
<1>4. ListsOK'
  BY <1>1 DEF ListsOK, UserOrNone
<1>5. NetOK'
  BY <1>1 DEF NetOK
<1>6. ProgramsOK'
  BY <1>1 DEF ProgramsOK, clientVars
<1>7. JobInv'
  BY <1>1 DEF JobInv
<1>w. WireInv'
  BY <1>1
     DEF WireInv, Wire, clientVars
<1>l. LeavingInv'
  BY <1>1
     DEF LeavingInv, clientVars
<1>8. PipeInv'
  <2> SUFFICES ASSUME NEW d \in Patient PROVE Pipe(d)'
    BY DEF PipeInv
  <2>1. Pipe(d) /\ d \in Clients
    BY DEF PipeInv, Patient
  <2>2. QED
    BY <1>1, <2>1 DEF Pipe, Busy, clientVars
<1>9. TokenInv'
  BY <1>1, TokensStay DEF Holds, dbVars, clientVars
<1>10. (\A d \in Clients : Session(d))'
  BY <1>1 DEF SessionInv, Session, Alive, Gone, dbVars, clientVars
<1>11. JobSession'
  BY <1>1 DEF SessionInv, JobSession, Alive, Gone, dbVars
<1>12. ClosedGone'
  BY <1>1 DEF SessionInv, ClosedGone, Gone, dbVars, clientVars
<1>13. LogoutInv'
  BY <1>1, NoMsgFields DEF LogoutInv, Alive, dbVars
<1>14. EntryOfConnection'
  BY <1>1, TokensApart DEF EntryOfConnection, ListsOK
<1>15. ConnInv'
  BY <1>1 DEF ConnInv, clientVars
<1>16. ListingInv'
  BY <1>1 DEF ListingInv, Listing, clientVars
<1>17. UnlistedInv'
  <2> SUFFICES ASSUME NEW d \in Patient, LoggedOut(d)' PROVE Unlisted(d)'
    BY DEF UnlistedInv
  <2>1. CASE d = c
    BY <1>1, <2>1, TokensApart DEF EntryOfConnection, Unlisted
  <2>2. CASE d # c
    <3>1. Unlisted(d)
      BY <1>1, <2>2 DEF UnlistedInv, LoggedOut, Busy, clientVars
    <3>2. QED
      BY <1>1, <3>1, TokensApart DEF Unlisted
  <2>3. QED
    BY <2>1, <2>2
<1>18. QED
  BY <1>2, <1>3, <1>4, <1>5, <1>6, <1>7, <1>8, <1>9, <1>10, <1>11, <1>12,
     <1>13, <1>14, <1>15, <1>16, <1>17, <1>w, <1>l
     DEF SessionInv

\* A day passes.
LEMMA ExpireStep ==
  ASSUME Inv, NEW t \in Tokens, Expire(t)
  PROVE  Inv'
<1> USE DEF Inv, TypesOK, Patient
<1>1. /\ expired' = expired \cup {t}
      /\ UNCHANGED <<users, sessions, made, serverVars, netVars, clientVars>>
  BY DEF Expire
<1>2. DbOK'
  BY <1>1 DEF DbOK
<1>3. RouterOK'
  BY <1>1 DEF RouterOK, serverVars
<1>4. ListsOK'
  BY <1>1 DEF ListsOK, serverVars
<1>5. NetOK'
  BY <1>1 DEF NetOK, netVars
<1>6. ProgramsOK'
  BY <1>1 DEF ProgramsOK, clientVars
<1>7. JobInv'
  BY <1>1 DEF JobInv, serverVars, netVars
<1>w. WireInv'
  BY <1>1
     DEF WireInv, Wire, serverVars, netVars, clientVars
<1>l. LeavingInv'
  BY <1>1
     DEF LeavingInv, serverVars, netVars, clientVars
<1>8. PipeInv'
  <2> SUFFICES ASSUME NEW d \in Patient PROVE Pipe(d)'
    BY DEF PipeInv
  <2>1. Pipe(d) /\ d \in Clients
    BY DEF PipeInv, Patient
  <2>2. QED
    BY <1>1, <2>1 DEF Pipe, Busy, serverVars, netVars, clientVars
<1>9. TokenInv'
  BY <1>1, TokensStay DEF Holds, serverVars, netVars, clientVars
<1>10. (\A d \in Clients : Session(d))'
  BY <1>1 DEF SessionInv, Session, Alive, Gone, netVars, clientVars
<1>11. JobSession'
  BY <1>1 DEF SessionInv, JobSession, Alive, Gone, serverVars
<1>12. ClosedGone'
  BY <1>1 DEF SessionInv, ClosedGone, Gone, clientVars
<1>13. LogoutInv'
  BY <1>1 DEF LogoutInv, Alive, serverVars, netVars
<1>14. EntryOfConnection'
  BY <1>1 DEF EntryOfConnection, serverVars
<1>15. ConnInv'
  BY <1>1 DEF ConnInv, serverVars, netVars, clientVars
<1>16. ListingInv'
  BY <1>1 DEF ListingInv, Listing, serverVars, netVars, clientVars
<1>17. UnlistedInv'
  BY <1>1
     DEF UnlistedInv, Unlisted, LoggedOut, Busy, serverVars, netVars,
         clientVars
<1>18. QED
  BY <1>2, <1>3, <1>4, <1>5, <1>6, <1>7, <1>8, <1>9, <1>10, <1>11, <1>12,
     <1>13, <1>14, <1>15, <1>16, <1>17, <1>w, <1>l
     DEF SessionInv

\* A request is sent.
LEMMA AskStep ==
  ASSUME Inv, NEW c \in Clients, Ask(c)
  PROVE  Inv'
<1> USE DEF Inv, TypesOK, Patient
<1>1. /\ link[c] = "up" /\ asked[c] = NoMsg
      /\ c \in Patient => pending[c] = "none"
      /\ UNCHANGED <<dbVars, serverVars, link, answer, me, token, file, closed>>
  BY DEF Ask, Patient
<1>2. PICK m \in AnyMsg, w \in Requested :
        /\ asked' = [asked EXCEPT ![c] = m]
        /\ pending' = [pending EXCEPT ![c] = w]
        /\ leaving' = [leaving EXCEPT ![c] =
                         IF m.kind = "logout" THEN leaving[c] \cup {m.t} ELSE leaving[c]]
        /\ ~m.ok /\ (m.kind = "register" => m.u \in Users)
        /\ m.t \in Held /\ (m.kind # "play" => w = m.kind)
        /\ m.kind = "play" => w \in {pending[c], "none"}
        /\ \/ /\ me[c] = Nobody \/ c \notin Patient
              /\ m.kind \in {"register", "login"} /\ m.t = Nobody
           \/ me[c] # Nobody /\ m.kind \in {"logout", "play"} /\ m.t = token[c]
  <2>1. PICK m \in Requests(c) :
          /\ asked' = [asked EXCEPT ![c] = m]
          /\ \E k \in IF m.kind = "play" THEN {pending[c], "none"} ELSE {m.kind} :
               pending' = [pending EXCEPT ![c] = k]
          /\ leaving' = [leaving EXCEPT ![c] =
                           IF m.kind = "logout" THEN leaving[c] \cup {m.t} ELSE leaving[c]]
    BY DEF Ask
  <2>2. PICK w \in IF m.kind = "play" THEN {pending[c], "none"} ELSE {m.kind} :
          pending' = [pending EXCEPT ![c] = w]
    BY <2>1
  <2>3. /\ m \in AnyMsg /\ ~m.ok /\ (m.kind = "register" => m.u \in Users)
        /\ m.t \in Held /\ m.kind \in Kinds
        /\ \/ /\ me[c] = Nobody \/ c \notin Patient
              /\ m.kind \in {"register", "login"} /\ m.t = Nobody
           \/ me[c] # Nobody /\ m.kind \in {"logout", "play"} /\ m.t = token[c]
    <3>1. CASE \E k \in {"register", "login"},
                  u \in {v \in Users : me[c] = Nobody \/ c \in Hasty} :
                 m = Msg(k, u, Nobody)
      <4>1. PICK k \in {"register", "login"},
                 u \in {v \in Users : me[c] = Nobody \/ c \in Hasty} :
              m = Msg(k, u, Nobody)
        BY <3>1
      <4>2. m \in Msgs
        BY <4>1 DEF Msg, Msgs, Kinds, UserOrNone, Held, TokenOrNone
      <4>3. m.kind = k /\ m.t = Nobody /\ ~m.ok /\ m.u \in Users
        BY <4>1 DEF Msg
      <4>4. me[c] = Nobody \/ c \notin Patient
        BY <4>1 DEF Patient
      <4>5. QED
        BY <4>2, <4>3, <4>4 DEF AnyMsg, Held, TokenOrNone, Kinds
    <3>2. CASE \E k \in {x \in {"logout", "play"} : me[c] # Nobody} :
                 m = Msg(k, Nobody, token[c])
      <4>1. PICK k \in {x \in {"logout", "play"} : me[c] # Nobody} :
              m = Msg(k, Nobody, token[c])
        BY <3>2
      <4>2. m \in Msgs
        BY <4>1 DEF Msg, Msgs, Kinds, UserOrNone, ProgramsOK
      <4>3. m.kind = k /\ m.t = token[c] /\ ~m.ok /\ token[c] \in Held
        BY <4>1 DEF Msg, ProgramsOK
      <4>4. QED
        BY <4>1, <4>2, <4>3 DEF AnyMsg, Kinds
    <3>3. QED
      BY <3>1, <3>2 DEF Requests
  <2>4. w \in Requested
    BY <2>2, <2>3 DEF Requested, ProgramsOK
  <2>5. (m.kind # "play" => w = m.kind) /\ (m.kind = "play" => w \in {pending[c], "none"})
    BY <2>2
  <2>6. QED
    BY <2>1, <2>2, <2>3, <2>4, <2>5
<1>3. c \in Patient =>
        /\ answer[c] = NoMsg /\ ~Busy(c)
        /\ me[c] = Nobody => Unlisted(c)
        /\ job.c = c /\ step = "list" => me[c] # Nobody
  <2>1. SUFFICES ASSUME c \in Patient
                 PROVE  /\ answer[c] = NoMsg /\ ~Busy(c)
                        /\ me[c] = Nobody => Unlisted(c)
                        /\ job.c = c /\ step = "list" => me[c] # Nobody
    OBVIOUS
  <2>2. Pipe(c) /\ Listing(c) /\ (LoggedOut(c) => Unlisted(c)) /\ pending[c] = "none"
    BY <1>1, <2>1 DEF PipeInv, ListingInv, UnlistedInv
  <2>3. answer[c] = NoMsg /\ ~Busy(c)
    <3>1. Busy(c) => job.m.kind # "none"
      BY JobFields, NoMsgFields DEF Busy, Msgs, Kinds
    <3>2. QED
      BY <1>1, <2>2, <3>1, NetFields DEF Pipe
  <2>4. QED
    BY <1>1, <2>2, <2>3, NoMsgFields DEF Listing, LoggedOut, LoginOK
<1>4. /\ c \in Patient /\ me[c] # Nobody => connUser[c] = me[c]
      /\ c \in Patient /\ me[c] # Nobody /\ Alive(token[c])
           => sessions[token[c]] = connUser[c]
  BY <1>1 DEF ConnInv, SessionInv, Session
<1>5. DbOK'
  BY <1>1 DEF DbOK, dbVars
<1>6. RouterOK'
  BY <1>1 DEF RouterOK, serverVars
<1>7. ListsOK'
  BY <1>1 DEF ListsOK, serverVars
<1>8. NetOK'
  BY <1>1, <1>2 DEF NetOK
<1>9. ProgramsOK'
  BY <1>1, <1>2 DEF ProgramsOK
<1>10. JobInv'
  BY <1>1, <1>2 DEF JobInv, serverVars
<1>w. WireInv'
  BY <1>1, <1>2, <1>3
     DEF WireInv, Wire, serverVars, NetOK, ProgramsOK
<1>l. LeavingInv'
  BY <1>1, <1>2, <1>3
     DEF LeavingInv, serverVars, NetOK, ProgramsOK
<1>11. PipeInv'
  <2> SUFFICES ASSUME NEW d \in Patient PROVE Pipe(d)'
    BY DEF PipeInv
  <2>1. Pipe(d) /\ d \in Clients
    BY DEF PipeInv, Patient
  <2>2. QED
    BY <1>1, <1>2, <1>3, <2>1 DEF Pipe, Busy, AuthKinds, serverVars, NetOK, ProgramsOK
<1>12. TokenInv'
  BY <1>1, <1>2, TokensApart, TokensStay DEF Holds, dbVars, serverVars
<1>13. (\A d \in Clients : Session(d))'
  <2> SUFFICES ASSUME NEW d \in Clients PROVE Session(d)'
    BY Zenon
  <2>1. Session(d) /\ sessions' = sessions /\ expired' = expired /\ made' = made
    BY <1>1 DEF SessionInv, dbVars
  <2>2. CASE d = c
    <3>1. /\ me'[c] = me[c] /\ token'[c] = token[c] /\ answer'[c] = answer[c]
          /\ leaving[c] \subseteq leaving'[c]
          /\ c \in Patient => pending[c] = "none"
      BY <1>1, <1>2 DEF ProgramsOK
    <3>2. QED
      BY <2>1, <2>2, <3>1 DEF Session, Alive, Gone
  <2>3. CASE d # c
    <3>1. /\ me'[d] = me[d] /\ token'[d] = token[d] /\ answer'[d] = answer[d]
          /\ pending'[d] = pending[d] /\ leaving'[d] = leaving[d]
      BY <1>1, <1>2, <2>3 DEF ProgramsOK, NetOK
    <3>2. QED
      BY <2>1, <3>1 DEF Session, Alive, Gone
  <2>4. QED
    BY <2>2, <2>3
<1>14. JobSession'
  BY <1>1 DEF SessionInv, JobSession, Alive, Gone, dbVars, serverVars
<1>15. ClosedGone'
  BY <1>1 DEF SessionInv, ClosedGone, Gone, dbVars
<1>16. LogoutInv'
  <2> SUFFICES ASSUME NEW d \in Patient, asked'[d].kind = "logout",
                      Alive(asked[d].t)'
               PROVE  sessions'[asked'[d].t] = connUser'[d]
    BY DEF LogoutInv, Alive
  <2>1. CASE d = c
    <3>1. asked'[d] = m /\ sessions' = sessions /\ expired' = expired /\ connUser' = connUser
      BY <1>1, <1>2, <2>1 DEF NetOK, dbVars, serverVars
    <3>2. m.kind = "logout" /\ Alive(m.t)
      BY <3>1 DEF Alive
    <3>3. me[c] # Nobody /\ m.t = token[c]
      BY <1>2, <3>2
    <3>4. sessions[m.t] = connUser[c]
      BY <1>4, <2>1, <3>2, <3>3
    <3>5. QED
      BY <2>1, <3>1, <3>4
  <2>2. CASE d # c
    BY <1>1, <1>2, <2>2 DEF LogoutInv, Alive, dbVars, serverVars
  <2>3. QED
    BY <2>1, <2>2
<1>17. EntryOfConnection'
  BY <1>1 DEF EntryOfConnection, serverVars
<1>18. ConnInv'
  BY <1>1 DEF ConnInv, serverVars
<1>19. ListingInv'
  BY <1>1, <1>2, <1>3 DEF ListingInv, Listing, AuthKinds, serverVars
<1>20. UnlistedInv'
  BY <1>1, <1>2
     DEF UnlistedInv, Unlisted, LoggedOut, Busy, AuthKinds, serverVars
<1>21. QED
  BY <1>5, <1>6, <1>7, <1>8, <1>9, <1>10, <1>11, <1>12, <1>13, <1>14, <1>15,
     <1>16, <1>17, <1>18, <1>19, <1>20, <1>w, <1>l
     DEF SessionInv

\* The answer to REGISTER.
LEMMA RegisterAnsweredStep ==
  ASSUME Inv, NEW c \in Clients, RegisterAnswered(c),
         answer' = [answer EXCEPT ![c] = NoMsg], pending' = [pending EXCEPT ![c] = "none"],
         UNCHANGED <<dbVars, serverVars, link, asked, leaving>>
  PROVE  Inv'
<1> USE DEF Inv, TypesOK, Patient
<1>1. /\ answer' = [answer EXCEPT ![c] = NoMsg]
      /\ pending' = [pending EXCEPT ![c] = "none"]
      /\ UNCHANGED <<dbVars, serverVars, link, asked, leaving>>
  OBVIOUS
<1>2. /\ answer[c].kind = "register" /\ answer[c] # NoMsg
      /\ link[c] \in {"up", "cut"}
      /\ c \in Patient => asked[c] = NoMsg /\ ~Busy(c)
  BY NetFields DEF RegisterAnswered, WireInv, Wire, PipeInv, Pipe, NetOK
<1>3. /\ UNCHANGED <<me, token, file, closed>>
      /\ c \in Patient => me[c] = Nobody /\ Unlisted(c)
  BY <1>2
     DEF RegisterAnswered, PipeInv, Pipe, AuthKinds, UnlistedInv, LoggedOut,
         LoginOK
<1>4. c \in Patient => ~(job.c = c /\ step = "list")
  BY <1>2 DEF ListingInv, Listing, LoginOK
<1>5. DbOK'
  BY DEF DbOK, dbVars
<1>6. RouterOK'
  BY DEF RouterOK, serverVars
<1>7. ListsOK'
  BY DEF ListsOK, serverVars
<1>8. NetOK'
  BY NoMsgFields DEF NetOK
<1>9. ProgramsOK'
  BY <1>3 DEF ProgramsOK, Requested
<1>10. JobInv'
  BY NoMsgFields DEF JobInv, Answerable, LoginOK, serverVars
<1>w. WireInv'
  BY <1>2, <1>3
     DEF WireInv, Wire, serverVars, NetOK
<1>l. LeavingInv'
  BY <1>2, <1>3
     DEF LeavingInv, serverVars, NetOK
<1>11. PipeInv'
  <2> SUFFICES ASSUME NEW d \in Patient PROVE Pipe(d)'
    BY DEF PipeInv
  <2>1. Pipe(d) /\ d \in Clients
    BY DEF PipeInv, Patient
  <2>2. QED
    BY <1>2, <1>3, <2>1 DEF Pipe, Busy, serverVars, NetOK
<1>12. TokenInv'
  BY <1>3, NoMsgFields, TokensApart, TokensStay DEF Holds, dbVars, serverVars
<1>13. (\A d \in Clients : Session(d))'
  <2> SUFFICES ASSUME NEW d \in Clients PROVE Session(d)'
    BY Zenon
  <2>1. Session(d) /\ sessions' = sessions /\ expired' = expired /\ made' = made
    BY DEF SessionInv, dbVars
  <2>2. CASE d = c
    <3>1. /\ me'[c] = me[c] /\ token'[c] = token[c] /\ answer'[c] = NoMsg
          /\ leaving'[c] = leaving[c] /\ (c \in Patient => me[c] = Nobody)
      BY <1>3 DEF NetOK
    <3>2. QED
      BY <2>1, <2>2, <3>1, NoMsgFields DEF Session, Alive
  <2>3. CASE d # c
    <3>1. /\ me'[d] = me[d] /\ token'[d] = token[d] /\ answer'[d] = answer[d]
          /\ pending'[d] = pending[d] /\ leaving'[d] = leaving[d]
      BY <1>2, <1>3, <2>3 DEF ProgramsOK, NetOK
    <3>2. QED
      BY <2>1, <3>1 DEF Session, Alive, Gone
  <2>4. QED
    BY <2>2, <2>3
<1>14. JobSession'
  BY DEF SessionInv, JobSession, Alive, Gone, dbVars, serverVars
<1>15. ClosedGone'
  BY <1>3 DEF SessionInv, ClosedGone, Gone, dbVars
<1>16. LogoutInv'
  BY DEF LogoutInv, Alive, dbVars, serverVars
<1>17. EntryOfConnection'
  BY DEF EntryOfConnection, serverVars
<1>18. ConnInv'
  BY <1>3, NoMsgFields DEF ConnInv, LoginOK, serverVars
<1>19. ListingInv'
  BY <1>3, <1>4 DEF ListingInv, Listing, serverVars
<1>20. UnlistedInv'
  BY <1>3 DEF UnlistedInv, Unlisted, LoggedOut, Busy, serverVars
<1>21. QED
  BY <1>5, <1>6, <1>7, <1>8, <1>9, <1>10, <1>11, <1>12, <1>13, <1>14, <1>15,
     <1>16, <1>17, <1>18, <1>19, <1>20, <1>w, <1>l
     DEF SessionInv

\* The answer to LOGIN.
LEMMA LoginAnsweredStep ==
  ASSUME Inv, NEW c \in Clients, LoginAnswered(c),
         answer' = [answer EXCEPT ![c] = NoMsg], pending' = [pending EXCEPT ![c] = "none"],
         UNCHANGED <<dbVars, serverVars, link, asked, leaving>>
  PROVE  Inv'
<1> USE DEF Inv, TypesOK, Patient
<1>1. /\ answer' = [answer EXCEPT ![c] = NoMsg]
      /\ pending' = [pending EXCEPT ![c] = "none"]
      /\ UNCHANGED <<dbVars, serverVars, link, asked, leaving>>
  OBVIOUS
<1>2. /\ answer[c].kind = "login" /\ answer[c] # NoMsg
      /\ link[c] \in {"up", "cut"}
      /\ c \in Patient => asked[c] = NoMsg /\ ~Busy(c)
  BY NetFields DEF LoginAnswered, WireInv, Wire, PipeInv, Pipe, NetOK
<1>3. closed' = closed /\ (c \in Patient => me[c] = Nobody)
  BY DEF LoginAnswered, PipeInv, Pipe, AuthKinds
<1>4. \/ /\ ~LoginOK(answer[c]) /\ UNCHANGED <<me, token, file>>
         /\ c \in Patient => Unlisted(c) /\ ~(job.c = c /\ step = "list")
      \/ /\ LoginOK(answer[c]) /\ answer[c].ok
         /\ answer[c].u \in Users /\ answer[c].t \in Tokens
         /\ me' = [me EXCEPT ![c] = answer[c].u]
         /\ token' = [token EXCEPT ![c] = answer[c].t]
         /\ file' = [file EXCEPT ![c] = IF c \in AutoLogin THEN answer[c].t ELSE file[c]]
  BY <1>2
     DEF LoginAnswered, SaveSession, LoginOK, UnlistedInv, LoggedOut,
         ListingInv, Listing, JobInv, Answerable
<1>5. DbOK'
  BY DEF DbOK, dbVars
<1>6. RouterOK'
  BY DEF RouterOK, serverVars
<1>7. ListsOK'
  BY DEF ListsOK, serverVars
<1>8. NetOK'
  BY NoMsgFields DEF NetOK
<1>9. ProgramsOK'
  BY <1>3, <1>4 DEF ProgramsOK, UserOrNone, Held, TokenOrNone, Requested
<1>10. JobInv'
  BY NoMsgFields DEF JobInv, Answerable, LoginOK, serverVars
<1>w. WireInv'
  BY <1>2, <1>4
     DEF WireInv, Wire, serverVars, NetOK, ProgramsOK
<1>l. LeavingInv'
  BY <1>2, <1>4
     DEF LeavingInv, serverVars, NetOK, ProgramsOK
<1>11. PipeInv'
  <2> SUFFICES ASSUME NEW d \in Patient PROVE Pipe(d)'
    BY DEF PipeInv
  <2>1. Pipe(d) /\ d \in Clients
    BY DEF PipeInv, Patient
  <2>2. QED
    BY <1>2, <1>4, <2>1 DEF Pipe, Busy, AuthKinds, serverVars, NetOK, ProgramsOK
<1>12. TokenInv'
  BY <1>4, NoMsgFields, TokensApart, TokensStay
     DEF Holds, dbVars, serverVars, ProgramsOK
<1>13. (\A d \in Clients : Session(d))'
  <2> SUFFICES ASSUME NEW d \in Clients PROVE Session(d)'
    BY Zenon
  <2>1. Session(d) /\ sessions' = sessions /\ expired' = expired /\ made' = made
    BY DEF SessionInv, dbVars
  <2>2. CASE d = c
    <3>1. answer'[c] = NoMsg /\ leaving'[c] = leaving[c]
      BY DEF NetOK
    <3>2. \/ /\ me'[c] = me[c] /\ token'[c] = token[c]
             /\ c \in Patient => me[c] = Nobody
          \/ /\ me'[c] = answer[c].u /\ token'[c] = answer[c].t
             /\ answer[c].kind = "login" /\ answer[c].ok
      BY <1>2, <1>3, <1>4 DEF ProgramsOK
    <3>3. QED
      BY <2>1, <2>2, <3>1, <3>2, NoMsgFields DEF Session, Alive
  <2>3. CASE d # c
    <3>1. /\ me'[d] = me[d] /\ token'[d] = token[d] /\ answer'[d] = answer[d]
          /\ pending'[d] = pending[d] /\ leaving'[d] = leaving[d]
      BY <1>2, <1>3, <1>4, <2>3 DEF ProgramsOK, NetOK
    <3>2. QED
      BY <2>1, <3>1 DEF Session, Alive, Gone
  <2>4. QED
    BY <2>2, <2>3
<1>14. JobSession'
  BY DEF SessionInv, JobSession, Alive, Gone, dbVars, serverVars
<1>15. ClosedGone'
  BY <1>3 DEF SessionInv, ClosedGone, Gone, dbVars
<1>16. LogoutInv'
  BY DEF LogoutInv, Alive, dbVars, serverVars
<1>17. EntryOfConnection'
  BY DEF EntryOfConnection, serverVars
<1>18. ConnInv'
  BY <1>4, NoMsgFields DEF ConnInv, LoginOK, serverVars, ProgramsOK
<1>19. ListingInv'
  BY <1>4, TokensApart DEF ListingInv, Listing, serverVars, ProgramsOK
<1>20. UnlistedInv'
  BY <1>4, NoMsgFields, TokensApart
     DEF UnlistedInv, Unlisted, LoggedOut, Busy, serverVars, ProgramsOK
<1>21. QED
  BY <1>5, <1>6, <1>7, <1>8, <1>9, <1>10, <1>11, <1>12, <1>13, <1>14, <1>15,
     <1>16, <1>17, <1>18, <1>19, <1>20, <1>w, <1>l
     DEF SessionInv

\* The answer to LOGOUT.
LEMMA LogoutAnsweredStep ==
  ASSUME Inv, NEW c \in Clients, LogoutAnswered(c),
         answer' = [answer EXCEPT ![c] = NoMsg], pending' = [pending EXCEPT ![c] = "none"],
         UNCHANGED <<dbVars, serverVars, link, asked, leaving>>
  PROVE  Inv'
<1> USE DEF Inv, TypesOK, Patient
<1>1. /\ answer' = [answer EXCEPT ![c] = NoMsg]
      /\ pending' = [pending EXCEPT ![c] = "none"]
      /\ UNCHANGED <<dbVars, serverVars, link, asked, leaving>>
  OBVIOUS
<1>2. /\ answer[c].kind = "logout" /\ answer[c] # NoMsg
      /\ link[c] \in {"up", "cut"}
      /\ c \in Patient => asked[c] = NoMsg /\ ~Busy(c)
  BY NetFields DEF LogoutAnswered, WireInv, Wire, PipeInv, Pipe, NetOK
<1>3. /\ me' = [me EXCEPT ![c] = Nobody]
      /\ token' = [token EXCEPT ![c] = Nobody]
      /\ file' = file
      /\ closed' = closed \cup {answer[c].t}
      /\ answer[c].t \in Held
  BY NetFields DEF LogoutAnswered
<1>4. /\ Gone(answer[c].t)
      /\ c \in Patient => Unlisted(c) /\ ~(job.c = c /\ step = "list")
  BY <1>2
     DEF SessionInv, Session, UnlistedInv, LoggedOut, LoginOK, ListingInv,
         Listing
<1>5. DbOK'
  BY DEF DbOK, dbVars
<1>6. RouterOK'
  BY DEF RouterOK, serverVars
<1>7. ListsOK'
  BY DEF ListsOK, serverVars
<1>8. NetOK'
  BY NoMsgFields DEF NetOK
<1>9. ProgramsOK'
  BY <1>3 DEF ProgramsOK, UserOrNone, Held, TokenOrNone, Requested
<1>10. JobInv'
  BY NoMsgFields DEF JobInv, Answerable, LoginOK, serverVars
<1>w. WireInv'
  BY <1>2, <1>3
     DEF WireInv, Wire, serverVars, NetOK
<1>l. LeavingInv'
  BY <1>2, <1>3
     DEF LeavingInv, serverVars, NetOK
<1>11. PipeInv'
  <2> SUFFICES ASSUME NEW d \in Patient PROVE Pipe(d)'
    BY DEF PipeInv
  <2>1. Pipe(d) /\ d \in Clients
    BY DEF PipeInv, Patient
  <2>2. QED
    BY <1>2, <1>3, <2>1 DEF Pipe, Busy, serverVars, NetOK
<1>12. TokenInv'
  BY <1>3, NoMsgFields, TokensApart, TokensStay DEF Holds, dbVars, serverVars
<1>13. (\A d \in Clients : Session(d))'
  BY <1>3, NoMsgFields DEF SessionInv, Session, Alive, Gone, dbVars, ProgramsOK
<1>14. JobSession'
  BY DEF SessionInv, JobSession, Alive, Gone, dbVars, serverVars
<1>15. ClosedGone'
  BY <1>3, <1>4 DEF SessionInv, ClosedGone, Gone, dbVars
<1>16. LogoutInv'
  BY DEF LogoutInv, Alive, dbVars, serverVars
<1>17. EntryOfConnection'
  BY DEF EntryOfConnection, serverVars
<1>18. ConnInv'
  BY <1>3, NoMsgFields DEF ConnInv, LoginOK, serverVars
<1>19. ListingInv'
  BY <1>3, <1>4 DEF ListingInv, Listing, serverVars
<1>20. UnlistedInv'
  BY <1>3, <1>4 DEF UnlistedInv, Unlisted, LoggedOut, Busy, serverVars
<1>21. QED
  BY <1>5, <1>6, <1>7, <1>8, <1>9, <1>10, <1>11, <1>12, <1>13, <1>14, <1>15,
     <1>16, <1>17, <1>18, <1>19, <1>20, <1>w, <1>l
     DEF SessionInv

\* The answer to VALIDATE_SESSION.
LEMMA ValidateAnsweredStep ==
  ASSUME Inv, NEW c \in Clients, ValidateAnswered(c),
         answer' = [answer EXCEPT ![c] = NoMsg], pending' = [pending EXCEPT ![c] = "none"],
         UNCHANGED <<dbVars, serverVars, link, asked, leaving>>
  PROVE  Inv'
<1> USE DEF Inv, TypesOK, Patient
<1>1. /\ answer' = [answer EXCEPT ![c] = NoMsg]
      /\ pending' = [pending EXCEPT ![c] = "none"]
      /\ UNCHANGED <<dbVars, serverVars, link, asked, leaving>>
  OBVIOUS
<1>2. /\ answer[c].kind = "validate" /\ answer[c] # NoMsg
      /\ link[c] \in {"up", "cut"}
      /\ c \in Patient => asked[c] = NoMsg /\ ~Busy(c)
  BY NetFields DEF ValidateAnswered, WireInv, Wire, PipeInv, Pipe, NetOK
<1>3. closed' = closed /\ (c \in Patient => me[c] = Nobody)
  BY DEF ValidateAnswered, PipeInv, Pipe, AuthKinds
<1>4. \/ /\ ~LoginOK(answer[c]) /\ UNCHANGED <<me, token>>
         /\ file' = [file EXCEPT ![c] = Nobody]
         /\ c \in Patient => Unlisted(c) /\ ~(job.c = c /\ step = "list")
      \/ /\ LoginOK(answer[c]) /\ answer[c].ok
         /\ answer[c].u \in Users /\ answer[c].u \in Held
         /\ me' = [me EXCEPT ![c] = answer[c].u]
         /\ token' = [token EXCEPT ![c] = answer[c].u]
         /\ file' = file
  BY <1>2
     DEF ValidateAnswered, ClearSession, LoginOK, UnlistedInv, LoggedOut,
         ListingInv, Listing, JobInv, Answerable, Held
<1>5. DbOK'
  BY DEF DbOK, dbVars
<1>6. RouterOK'
  BY DEF RouterOK, serverVars
<1>7. ListsOK'
  BY DEF ListsOK, serverVars
<1>8. NetOK'
  BY NoMsgFields DEF NetOK
<1>9. ProgramsOK'
  BY <1>3, <1>4 DEF ProgramsOK, UserOrNone, TokenOrNone, Requested
<1>10. JobInv'
  BY NoMsgFields DEF JobInv, Answerable, LoginOK, serverVars
<1>w. WireInv'
  BY <1>2, <1>4
     DEF WireInv, Wire, serverVars, NetOK, ProgramsOK
<1>l. LeavingInv'
  BY <1>2, <1>4
     DEF LeavingInv, serverVars, NetOK, ProgramsOK
<1>11. PipeInv'
  <2> SUFFICES ASSUME NEW d \in Patient PROVE Pipe(d)'
    BY DEF PipeInv
  <2>1. Pipe(d) /\ d \in Clients
    BY DEF PipeInv, Patient
  <2>2. QED
    BY <1>2, <1>4, <2>1 DEF Pipe, Busy, AuthKinds, serverVars, NetOK, ProgramsOK
<1>12. TokenInv'
  BY <1>4, NoMsgFields, TokensApart, TokensStay
     DEF Holds, dbVars, serverVars, ProgramsOK
<1>13. (\A d \in Clients : Session(d))'
  <2> SUFFICES ASSUME NEW d \in Clients PROVE Session(d)'
    BY Zenon
  <2>1. Session(d) /\ sessions' = sessions /\ expired' = expired /\ made' = made
    BY DEF SessionInv, dbVars
  <2>2. CASE d = c
    <3>1. answer'[c] = NoMsg /\ leaving'[c] = leaving[c]
      BY DEF NetOK
    <3>2. \/ /\ me'[c] = me[c] /\ token'[c] = token[c]
             /\ c \in Patient => me[c] = Nobody
          \/ token'[c] \in Users
      BY <1>3, <1>4 DEF ProgramsOK
    <3>3. QED
      BY <2>1, <2>2, <3>1, <3>2, NoMsgFields, TokensApart DEF Session, Alive
  <2>3. CASE d # c
    <3>1. /\ me'[d] = me[d] /\ token'[d] = token[d] /\ answer'[d] = answer[d]
          /\ pending'[d] = pending[d] /\ leaving'[d] = leaving[d]
      BY <1>2, <1>3, <1>4, <2>3 DEF ProgramsOK, NetOK
    <3>2. QED
      BY <2>1, <3>1 DEF Session, Alive, Gone
  <2>4. QED
    BY <2>2, <2>3
<1>14. JobSession'
  BY DEF SessionInv, JobSession, Alive, Gone, dbVars, serverVars
<1>15. ClosedGone'
  BY <1>3 DEF SessionInv, ClosedGone, Gone, dbVars
<1>16. LogoutInv'
  BY DEF LogoutInv, Alive, dbVars, serverVars
<1>17. EntryOfConnection'
  BY DEF EntryOfConnection, serverVars
<1>18. ConnInv'
  BY <1>4, NoMsgFields DEF ConnInv, LoginOK, serverVars, ProgramsOK
<1>19. ListingInv'
  BY <1>4, TokensApart DEF ListingInv, Listing, serverVars, ProgramsOK
<1>20. UnlistedInv'
  BY <1>4, NoMsgFields, TokensApart
     DEF UnlistedInv, Unlisted, LoggedOut, Busy, serverVars, ProgramsOK
<1>21. QED
  BY <1>5, <1>6, <1>7, <1>8, <1>9, <1>10, <1>11, <1>12, <1>13, <1>14, <1>15,
     <1>16, <1>17, <1>18, <1>19, <1>20, <1>w, <1>l
     DEF SessionInv

\* An answer to another request than the pending one.
LEMMA MisreadStep ==
  ASSUME Inv, NEW c \in Clients, Misread(c),
         answer' = [answer EXCEPT ![c] = NoMsg], pending' = [pending EXCEPT ![c] = "none"],
         UNCHANGED <<dbVars, serverVars, link, asked, leaving>>
  PROVE  Inv'
<1> USE DEF Inv, TypesOK, Patient
<1>1. /\ answer' = [answer EXCEPT ![c] = NoMsg]
      /\ pending' = [pending EXCEPT ![c] = "none"]
      /\ UNCHANGED <<dbVars, serverVars, link, asked, leaving>>
  OBVIOUS
<1>2. /\ answer[c].kind # "none" /\ link[c] \in {"up", "cut"}
      /\ UNCHANGED <<me, token, file, closed>>
  BY NetFields, NoMsgFields DEF Misread, WireInv, Wire, NetOK
<1>3. c \notin Patient
  BY DEF Misread, PipeInv, Pipe
<1>5. DbOK'
  BY DEF DbOK, dbVars
<1>6. RouterOK'
  BY DEF RouterOK, serverVars
<1>7. ListsOK'
  BY DEF ListsOK, serverVars
<1>8. NetOK'
  BY NoMsgFields DEF NetOK
<1>9. ProgramsOK'
  BY <1>2, <1>3 DEF ProgramsOK, Requested
<1>10. JobInv'
  BY NoMsgFields DEF JobInv, Answerable, LoginOK, serverVars
<1>w. WireInv'
  BY <1>2, <1>3
     DEF WireInv, Wire, serverVars, NetOK
<1>l. LeavingInv'
  BY <1>2, <1>3
     DEF LeavingInv, serverVars, NetOK
<1>11. PipeInv'
  <2> SUFFICES ASSUME NEW d \in Patient PROVE Pipe(d)'
    BY DEF PipeInv
  <2>1. Pipe(d) /\ d \in Clients
    BY DEF PipeInv, Patient
  <2>2. QED
    BY <1>2, <1>3, <2>1 DEF Pipe, Busy, serverVars, NetOK
<1>12. TokenInv'
  BY <1>2, <1>3, NoMsgFields, TokensApart, TokensStay DEF Holds, dbVars, serverVars
<1>13. (\A d \in Clients : Session(d))'
  <2> SUFFICES ASSUME NEW d \in Clients PROVE Session(d)'
    BY Zenon
  <2>1. Session(d) /\ sessions' = sessions /\ expired' = expired /\ made' = made
    BY DEF SessionInv, dbVars
  <2>2. CASE d = c
    <3>1. /\ me'[c] = me[c] /\ token'[c] = token[c] /\ answer'[c] = NoMsg
          /\ leaving'[c] = leaving[c] /\ c \notin Patient
      BY <1>2, <1>3 DEF NetOK
    <3>2. QED
      BY <2>1, <2>2, <3>1, NoMsgFields DEF Session, Alive
  <2>3. CASE d # c
    <3>1. /\ me'[d] = me[d] /\ token'[d] = token[d] /\ answer'[d] = answer[d]
          /\ pending'[d] = pending[d] /\ leaving'[d] = leaving[d]
      BY <1>2, <1>3, <2>3 DEF ProgramsOK, NetOK
    <3>2. QED
      BY <2>1, <3>1 DEF Session, Alive, Gone
  <2>4. QED
    BY <2>2, <2>3
<1>14. JobSession'
  BY DEF SessionInv, JobSession, Alive, Gone, dbVars, serverVars
<1>15. ClosedGone'
  BY <1>2, <1>3 DEF SessionInv, ClosedGone, Gone, dbVars
<1>16. LogoutInv'
  BY DEF LogoutInv, Alive, dbVars, serverVars
<1>17. EntryOfConnection'
  BY DEF EntryOfConnection, serverVars
<1>18. ConnInv'
  BY <1>2, <1>3, NoMsgFields DEF ConnInv, LoginOK, serverVars
<1>19. ListingInv'
  BY <1>2, <1>3 DEF ListingInv, Listing, serverVars
<1>20. UnlistedInv'
  BY <1>2, <1>3 DEF UnlistedInv, Unlisted, LoggedOut, Busy, serverVars
<1>21. QED
  BY <1>5, <1>6, <1>7, <1>8, <1>9, <1>10, <1>11, <1>12, <1>13, <1>14, <1>15,
     <1>16, <1>17, <1>18, <1>19, <1>20, <1>w, <1>l
     DEF SessionInv

-----------------------------------------------------------------------------
(* The handlers.                                                           *)

\* validateSession deletes what has expired, and nothing else.
LEMMA CleanedKeeps ==
  ASSUME DbOK, NEW t \in Held
  PROVE  /\ Cleaned(t) \in [Tokens -> UserOrNone]
         /\ \A x \in Tokens : /\ Alive(x) => Cleaned(t)[x] = sessions[x]
                              /\ sessions[x] = Nobody => Cleaned(t)[x] = Nobody
BY DEF DbOK, Cleaned, Without, Alive, UserOrNone

\* deleteSession deletes one row.
LEMMA WithoutKeeps ==
  ASSUME DbOK, NEW t \in Held
  PROVE  /\ Without(t) \in [Tokens -> UserOrNone]
         /\ \A x \in Tokens : /\ x # t => Without(t)[x] = sessions[x]
                              /\ x = t => Without(t)[x] = Nobody
                              /\ sessions[x] = Nobody => Without(t)[x] = Nobody
BY DEF DbOK, Without, UserOrNone

\* The state in which a handler begins.
LEMMA Begins ==
  ASSUME Inv, NEW c \in Clients, step = "idle", asked[c].kind # "none"
  PROVE  /\ asked[c] \in Msgs /\ ~asked[c].ok
         /\ asked[c].u \in UserOrNone /\ asked[c].t \in Held
         /\ link[c] \notin {"off", "cut"}
         /\ job.c = Nobody /\ job.m = NoMsg /\ job = NoJob
         /\ c \in Patient =>
              /\ answer[c] = NoMsg
              /\ asked[c].kind # "play" /\ link[c] = "up" =>
                   pending[c] = asked[c].kind
              /\ asked[c].kind \in AuthKinds => me[c] = Nobody /\ Unlisted(c)
<1> USE DEF Inv, TypesOK, Patient
<1>1. asked[c] \in Msgs
  BY NoMsgFields DEF NetOK, AnyMsg
<1>2. asked[c].u \in UserOrNone /\ asked[c].t \in Held /\ asked[c].kind \in Kinds
  BY NetFields
<1>3. QED
  BY <1>1, NetFields, JobFields
     DEF WireInv, Wire, PipeInv, Pipe, JobInv, UnlistedInv, LoggedOut

\* The answer a handler gives in the end, and the job it is then.
LEMMA ReplyTyped ==
  ASSUME NEW k \in Kinds, NEW u \in UserOrNone, NEW t \in Held
  PROVE  /\ Reply(k, u, t) \in Msgs /\ Refusal(k) \in Msgs
         /\ Reply(k, u, t).kind = k /\ Reply(k, u, t).u = u
         /\ Reply(k, u, t).t = t /\ Reply(k, u, t).ok
         /\ Refusal(k).kind = k /\ Refusal(k).u = Nobody
         /\ Refusal(k).t = Nobody /\ ~Refusal(k).ok
BY DEF Reply, Refusal, Msg, Msgs, UserOrNone, Held, TokenOrNone

\* REGISTER succeeds.
LEMMA RegisterStep ==
  ASSUME Inv, NEW c \in Clients, Register(c)
  PROVE  Inv'
<1> USE DEF Inv, TypesOK, Patient
<1>1. /\ step = "idle" /\ asked[c].kind = "register"
      /\ asked' = [asked EXCEPT ![c] = NoMsg]
      /\ UNCHANGED <<sessions, expired, made, connUser, listed, link, answer, clientVars>>
  BY DEF Register, Begin
<1>2. /\ asked[c] \in Msgs /\ ~asked[c].ok
      /\ asked[c].u \in UserOrNone /\ asked[c].t \in Held
      /\ link[c] \notin {"off", "cut"}
      /\ job.c = Nobody /\ job.m = NoMsg /\ job = NoJob
      /\ c \in Patient => answer[c] = NoMsg /\ me[c] = Nobody /\ Unlisted(c)
      /\ c \in Patient /\ link[c] = "up" => pending[c] = asked[c].kind
  BY <1>1, Begins DEF AuthKinds
<1>3. PICK m \in Msgs :
        /\ job' = [c |-> c, m |-> m] /\ step' = "answer"
        /\ m.kind = "register" /\ m.t = Nobody /\ m.ok
  <2>1. "register" \in Kinds /\ Nobody \in UserOrNone /\ Nobody \in Held
    BY DEF Kinds, UserOrNone, Held, TokenOrNone
  <2>2. /\ job' = [c |-> c, m |-> Reply("register", Nobody, Nobody)]
        /\ step' = "answer"
    BY DEF Register, Begin
  <2>3. PICK m \in Msgs : /\ m = Reply("register", Nobody, Nobody)
                          /\ m.kind = "register" /\ m.t = Nobody /\ m.ok
    BY <2>1, ReplyTyped
  <2>4. QED
    BY <2>2, <2>3
<1>4. /\ job' # NoJob /\ job'.c = c /\ job'.m = m /\ job' \in Jobs
      /\ m.kind = "register" /\ m.kind # "none" /\ ~Busy(c)
      /\ \A d \in Clients : Busy(d)' <=>
           d = c /\ step' \in {"authenticate", "unlist", "answer"}
  BY <1>1, <1>3, NoMsgFields DEF Jobs, Busy
<1>5. asked[c].u \in Users /\ users' = users \cup {asked[c].u}
  BY <1>1 DEF Register, CreateUser, JobInv
<1>6. DbOK'
  BY <1>1, <1>5 DEF DbOK
<1>7. RouterOK'
  BY <1>3, <1>4 DEF RouterOK
<1>8. ListsOK'
  BY <1>1 DEF ListsOK
<1>9. NetOK'
  BY <1>1, NoMsgFields DEF NetOK
<1>10. ProgramsOK'
  BY <1>1 DEF ProgramsOK, clientVars
<1>11. JobInv'
  BY <1>1, <1>3, NoMsgFields DEF JobInv, Answerable, LoginOK
<1>w. WireInv'
  BY <1>1, <1>2, <1>4, NoMsgFields
     DEF WireInv, Wire, clientVars, NetOK
<1>l. LeavingInv'
  BY <1>1, <1>4, NoMsgFields
     DEF LeavingInv, clientVars, NetOK
<1>12. PipeInv'
  <2> SUFFICES ASSUME NEW d \in Patient PROVE Pipe(d)'
    BY DEF PipeInv
  <2>1. Pipe(d) /\ d \in Clients
    BY DEF PipeInv, Patient
  <2>2. QED
    BY <1>1, <1>4, NoMsgFields, <2>1 DEF Pipe, clientVars, NetOK
<1>13. TokenInv'
  BY <1>1, <1>3, NoMsgFields, TokensApart, TokensStay DEF Holds, clientVars
<1>14. (\A d \in Clients : Session(d))'
  BY <1>1 DEF SessionInv, Session, Alive, Gone, clientVars
<1>15. JobSession'
  BY <1>4 DEF JobSession
<1>16. ClosedGone'
  BY <1>1 DEF SessionInv, ClosedGone, Gone, clientVars
<1>17. LogoutInv'
  BY <1>1, NoMsgFields DEF LogoutInv, Alive
<1>18. EntryOfConnection'
  BY <1>1 DEF EntryOfConnection
<1>19. ConnInv'
  BY <1>1, <1>3 DEF ConnInv, LoginOK, clientVars
<1>20. ListingInv'
  BY <1>3 DEF ListingInv, Listing
<1>21. UnlistedInv'
  BY <1>1, <1>2, <1>4 DEF UnlistedInv, Unlisted, LoggedOut, clientVars
<1>22. QED
  BY <1>6, <1>7, <1>8, <1>9, <1>10, <1>11, <1>12, <1>13, <1>14, <1>15, <1>16,
     <1>17, <1>18, <1>19, <1>20, <1>21, <1>w, <1>l
     DEF SessionInv

\* A request is refused.
LEMMA RefusedStep ==
  ASSUME Inv, NEW c \in Clients, Refused(c)
  PROVE  Inv'
<1> USE DEF Inv, TypesOK, Patient
<1>1. /\ step = "idle" /\ asked[c].kind \in AuthKinds
      /\ link[c] = "up" => answer[c] = NoMsg
      /\ asked' = [asked EXCEPT ![c] = NoMsg]
      /\ UNCHANGED <<dbVars, serverVars, link, clientVars>>
  BY DEF Refused, AuthKinds
<1>2. /\ job.c = Nobody /\ link[c] \notin {"off", "cut"}
      /\ c \in Patient => answer[c] = NoMsg /\ me[c] = Nobody /\ Unlisted(c)
      /\ c \in Patient /\ link[c] = "up" => pending[c] = asked[c].kind
  BY <1>1, Begins DEF AuthKinds
<1>3. PICK m \in AnyMsg :
        /\ answer' = [answer EXCEPT ![c] = m]
        /\ link[c] # "up" => m = answer[c]
        /\ link[c] = "up" => m.kind = asked[c].kind /\ ~m.ok /\ m.t = Nobody
  <2>1. Nobody \in UserOrNone /\ Nobody \in Held /\ asked[c].kind \in Kinds
    BY <1>1 DEF Kinds, UserOrNone, Held, TokenOrNone, AuthKinds
  <2>2. /\ Refusal(asked[c].kind) \in Msgs
        /\ Refusal(asked[c].kind).kind = asked[c].kind
        /\ Refusal(asked[c].kind).t = Nobody /\ ~Refusal(asked[c].kind).ok
    BY <2>1, ReplyTyped
  <2>3. answer' = [answer EXCEPT ![c] =
                     IF link[c] = "up" THEN Refusal(asked[c].kind) ELSE answer[c]]
    BY DEF Refused
  <2>4. CASE link[c] = "up"
    BY <2>2, <2>3, <2>4 DEF AnyMsg
  <2>5. CASE link[c] # "up"
    BY <2>3, <2>5 DEF NetOK
  <2>6. QED
    BY <2>4, <2>5
<1>4. ~LoginOK(m) \/ m = answer[c]
  BY <1>3 DEF LoginOK
<1>5. DbOK'
  BY <1>1 DEF DbOK, dbVars
<1>6. RouterOK'
  BY <1>1 DEF RouterOK, serverVars
<1>7. ListsOK'
  BY <1>1 DEF ListsOK, serverVars
<1>8. NetOK'
  BY <1>1, <1>3, NoMsgFields DEF NetOK
<1>9. ProgramsOK'
  BY <1>1 DEF ProgramsOK, clientVars
<1>10. JobInv'
  BY <1>1, <1>3, NoMsgFields DEF JobInv, Answerable, LoginOK, serverVars, NetOK
<1>w. WireInv'
  BY <1>1, <1>2, <1>3, NoMsgFields
     DEF WireInv, Wire, serverVars, clientVars, NetOK
<1>l. LeavingInv'
  BY <1>1, NoMsgFields DEF LeavingInv, clientVars, NetOK
<1>11. PipeInv'
  <2> SUFFICES ASSUME NEW d \in Patient PROVE Pipe(d)'
    BY DEF PipeInv
  <2>1. Pipe(d) /\ d \in Clients
    BY DEF PipeInv
  <2>2. QED
    BY <1>1, <1>2, <1>3, NoMsgFields, <2>1
       DEF Pipe, Busy, AuthKinds, serverVars, clientVars, NetOK
<1>12. TokenInv'
  BY <1>1, <1>3, NoMsgFields, TokensApart, TokensStay
     DEF Holds, dbVars, serverVars, clientVars
<1>13. (\A d \in Clients : Session(d))'
  BY <1>1, <1>3 DEF SessionInv, Session, Alive, Gone, dbVars, clientVars, AuthKinds
<1>14. JobSession'
  BY <1>1 DEF SessionInv, JobSession, Alive, Gone, dbVars, serverVars
<1>15. ClosedGone'
  BY <1>1 DEF SessionInv, ClosedGone, Gone, dbVars, clientVars
<1>16. LogoutInv'
  BY <1>1, NoMsgFields DEF LogoutInv, Alive, dbVars, serverVars
<1>17. EntryOfConnection'
  BY <1>1 DEF EntryOfConnection, serverVars
<1>18. ConnInv'
  BY <1>1, <1>3, <1>4 DEF ConnInv, serverVars, clientVars, NetOK
<1>19. ListingInv'
  BY <1>1, <1>2, TokensApart DEF ListingInv, Listing, serverVars, clientVars
<1>20. UnlistedInv'
  BY <1>1, <1>2, <1>3 DEF UnlistedInv, Unlisted, LoggedOut, Busy, serverVars, clientVars
<1>21. QED
  BY <1>5, <1>6, <1>7, <1>8, <1>9, <1>10, <1>11, <1>12, <1>13, <1>14, <1>15,
     <1>16, <1>17, <1>18, <1>19, <1>20, <1>w, <1>l
     DEF SessionInv

\* LOGIN succeeds.
LEMMA LoginStep ==
  ASSUME Inv, NEW c \in Clients, Login(c)
  PROVE  Inv'
<1> USE DEF Inv, TypesOK, Patient
<1>1. /\ step = "idle" /\ asked[c].kind = "login"
      /\ asked' = [asked EXCEPT ![c] = NoMsg]
      /\ UNCHANGED <<users, expired, connUser, listed, link, answer, clientVars>>
  BY DEF Login, Begin
<1>2. /\ asked[c] \in Msgs /\ ~asked[c].ok
      /\ asked[c].u \in UserOrNone /\ asked[c].t \in Held
      /\ link[c] \notin {"off", "cut"}
      /\ job.c = Nobody /\ job.m = NoMsg /\ job = NoJob
      /\ c \in Patient => answer[c] = NoMsg /\ me[c] = Nobody /\ Unlisted(c)
      /\ c \in Patient /\ link[c] = "up" => pending[c] = asked[c].kind
  BY <1>1, Begins DEF AuthKinds
<1>3. PICK m \in Msgs :
        /\ job' = [c |-> c, m |-> m] /\ step' = "authenticate"
        /\ m.kind = "login" /\ m.u = asked[c].u /\ m.t = NewToken /\ m.ok
        /\ m.u \in Users /\ m.t \in Tokens
  <2>1. NewToken \in Tokens /\ asked[c].u \in Users
    BY DEF Login, UsernameExists, DbOK
  <2>2. NewToken \in Held /\ asked[c].u \in UserOrNone /\ "login" \in Kinds
    BY <2>1 DEF Held, TokenOrNone, UserOrNone, Kinds
  <2>3. /\ job' = [c |-> c, m |-> Reply("login", asked[c].u, NewToken)]
        /\ step' = "authenticate"
    BY DEF Login, Begin
  <2>4. PICK m \in Msgs : /\ m = Reply("login", asked[c].u, NewToken)
                          /\ m.kind = "login" /\ m.u = asked[c].u
                          /\ m.t = NewToken /\ m.ok
    BY <2>2, ReplyTyped
  <2>5. QED
    BY <2>1, <2>3, <2>4
<1>4. /\ job' # NoJob /\ job'.c = c /\ job'.m = m /\ job' \in Jobs
      /\ m.kind = "login" /\ m.kind # "none" /\ ~Busy(c)
      /\ \A d \in Clients : Busy(d)' <=>
           d = c /\ step' \in {"authenticate", "unlist", "answer"}
  BY <1>1, <1>3, NoMsgFields DEF Jobs, Busy
<1>5. /\ made' = NewToken /\ made \in Nat /\ NewToken = made + 1
      /\ sessions' = [sessions EXCEPT ![NewToken] = m.u]
      /\ \A d \in Clients, t \in Tokens : Holds(d, t) => t <= made
      /\ \A t \in Tokens : t <= made => t # NewToken
  BY <1>3 DEF Login, CreateSession, NewToken, DbOK, TokenInv, Tokens
<1>6. /\ \A t \in Tokens : t <= made => sessions'[t] = sessions[t] /\ t <= made'
      /\ m.t \in Tokens /\ sessions'[m.t] = m.u /\ m.t <= made'
      /\ expired' = expired
  BY <1>1, <1>3, <1>5 DEF DbOK, Tokens
<1>7. \A d \in Clients : \A t \in {token[d], asked[d].t, answer[d].t} :
        t \in Tokens => t <= made
  BY <1>5 DEF Holds
<1>8. DbOK'
  BY <1>1, <1>3, <1>5 DEF DbOK, Tokens, UserOrNone
<1>9. RouterOK'
  BY <1>3, <1>4 DEF RouterOK
<1>10. ListsOK'
  BY <1>1 DEF ListsOK
<1>11. NetOK'
  BY <1>1, NoMsgFields DEF NetOK
<1>12. ProgramsOK'
  BY <1>1 DEF ProgramsOK, clientVars
<1>13. JobInv'
  BY <1>1, <1>3, NoMsgFields DEF JobInv, Answerable, LoginOK
<1>w. WireInv'
  BY <1>1, <1>2, <1>4, NoMsgFields
     DEF WireInv, Wire, clientVars, NetOK
<1>l. LeavingInv'
  BY <1>1, <1>4, NoMsgFields
     DEF LeavingInv, clientVars, NetOK
<1>14. PipeInv'
  <2> SUFFICES ASSUME NEW d \in Patient PROVE Pipe(d)'
    BY DEF PipeInv
  <2>1. Pipe(d) /\ d \in Clients
    BY DEF PipeInv, Patient
  <2>2. QED
    BY <1>1, <1>4, NoMsgFields, <2>1 DEF Pipe, clientVars, NetOK
<1>15. TokenInv'
  <2>1. \A d \in Clients, t \in Tokens :
           Holds(d, t)' => Holds(d, t) \/ (d = c /\ t = NewToken)
    BY <1>1, <1>3, NoMsgFields, TokensApart DEF Holds, clientVars
  <2>2. \A d \in Clients : ~Holds(d, NewToken)
    BY <1>3, <1>5
  <2>3. \A t \in Tokens : t <= made => t <= made'
    BY <1>5 DEF Tokens
  <2>4. QED
    BY <1>5, <2>1, <2>3 DEF TokenInv
<1>16. (\A d \in Clients : Session(d))'
  <2> SUFFICES ASSUME NEW d \in Clients PROVE Session(d)'
    BY Zenon
  <2>1. Session(d)
    BY DEF SessionInv
  <2>2. /\ me'[d] = me[d] /\ pending'[d] = pending[d] /\ token'[d] = token[d]
        /\ leaving' = leaving
        /\ answer'[d] = answer[d]
    BY <1>1 DEF clientVars
  <2>3. QED
    BY <1>6, <1>7, <2>1, <2>2 DEF Session, Alive, Gone
<1>17. JobSession'
  BY <1>4, <1>6 DEF JobSession
<1>18. ClosedGone'
  BY <1>1, <1>6 DEF SessionInv, ClosedGone, Gone, clientVars
<1>19. LogoutInv'
  <2> SUFFICES ASSUME NEW d \in Patient, asked'[d].kind = "logout",
                      Alive(asked[d].t)'
               PROVE  sessions'[asked'[d].t] = connUser'[d]
    BY DEF LogoutInv, Alive
  <2>1. d # c /\ asked'[d] = asked[d]
    BY <1>1, NoMsgFields
  <2>2. asked[d].t \in Tokens /\ asked[d].t \notin expired
    BY <1>1, <2>1 DEF Alive
  <2>3. sessions[asked[d].t] = connUser[d]
    BY <2>1, <2>2 DEF LogoutInv, Alive
  <2>4. QED
    BY <1>1, <1>6, <1>7, <2>1, <2>2, <2>3
<1>20. EntryOfConnection'
  BY <1>1 DEF EntryOfConnection
<1>21. ConnInv'
  BY <1>1, <1>3 DEF ConnInv, clientVars
<1>22. ListingInv'
  BY <1>3 DEF ListingInv, Listing
<1>23. UnlistedInv'
  BY <1>1, <1>2, <1>4 DEF UnlistedInv, Unlisted, LoggedOut, clientVars
<1>24. QED
  BY <1>8, <1>9, <1>10, <1>11, <1>12, <1>13, <1>14, <1>15, <1>16, <1>17,
     <1>18, <1>19, <1>20, <1>21, <1>22, <1>23, <1>w, <1>l
     DEF SessionInv

\* VALIDATE_SESSION.
LEMMA ValidateStep ==
  ASSUME Inv, NEW c \in Clients, Validate(c)
  PROVE  Inv'
<1> USE DEF Inv, TypesOK, Patient
<1>1. /\ step = "idle" /\ asked[c].kind = "validate"
      /\ asked' = [asked EXCEPT ![c] = NoMsg]
      /\ UNCHANGED <<users, expired, made, connUser, listed, link, answer, clientVars>>
  BY DEF Validate, Begin
<1>2. /\ asked[c] \in Msgs /\ ~asked[c].ok
      /\ asked[c].u \in UserOrNone /\ asked[c].t \in Held
      /\ link[c] \notin {"off", "cut"}
      /\ job.c = Nobody /\ job.m = NoMsg /\ job = NoJob
      /\ c \in Patient => answer[c] = NoMsg /\ me[c] = Nobody /\ Unlisted(c)
      /\ c \in Patient /\ link[c] = "up" => pending[c] = asked[c].kind
  BY <1>1, Begins DEF AuthKinds
<1>3. PICK m \in Msgs :
        /\ job' = [c |-> c, m |-> m] /\ step' = IF m.ok THEN "authenticate" ELSE "answer"
        /\ m.kind = "validate" /\ m.t = Nobody /\ (m.ok => m.u \in Users)
  <2>1. Valid(asked[c].t) \in UserOrNone
    BY DEF Valid, DbOK, UserOrNone
  <2>2. PICK u \in UserOrNone : u = Valid(asked[c].t)
    BY <2>1
  <2>3. "validate" \in Kinds /\ Nobody \in Held
    BY DEF Kinds, Held, TokenOrNone
  <2>4. CASE u # Nobody
    <3>1. /\ job' = [c |-> c, m |-> Reply("validate", u, Nobody)]
          /\ step' = "authenticate" /\ u \in Users
      BY <2>2, <2>4 DEF Validate, Begin, UserOrNone
    <3>2. PICK m \in Msgs : /\ m = Reply("validate", u, Nobody)
                            /\ m.kind = "validate" /\ m.u = u
                            /\ m.t = Nobody /\ m.ok
      BY <2>3, ReplyTyped
    <3>3. QED
      BY <3>1, <3>2
  <2>5. CASE u = Nobody
    <3>1. /\ job' = [c |-> c, m |-> Refusal("validate")] /\ step' = "answer"
      BY <2>2, <2>5 DEF Validate, Begin
    <3>2. ~Refusal("validate").ok
      BY <2>2, <2>3, ReplyTyped
    <3>3. QED
      BY <2>2, <2>3, <3>1, <3>2, ReplyTyped
  <2>6. QED
    BY <2>4, <2>5
<1>4. /\ job' # NoJob /\ job'.c = c /\ job'.m = m /\ job' \in Jobs
      /\ m.kind = "validate" /\ m.kind # "none" /\ ~Busy(c)
      /\ \A d \in Clients : Busy(d)' <=>
           d = c /\ step' \in {"authenticate", "unlist", "answer"}
  BY <1>1, <1>3, NoMsgFields DEF Jobs, Busy
<1>5. /\ sessions' \in [Tokens -> UserOrNone]
      /\ \A x \in Tokens : /\ Alive(x) => sessions'[x] = sessions[x]
                           /\ sessions[x] = Nobody => sessions'[x] = Nobody
  BY <1>2, CleanedKeeps DEF Validate
<1>6. DbOK'
  BY <1>1, <1>5 DEF DbOK
<1>7. RouterOK'
  BY <1>3, <1>4 DEF RouterOK
<1>8. ListsOK'
  BY <1>1 DEF ListsOK
<1>9. NetOK'
  BY <1>1, NoMsgFields DEF NetOK
<1>10. ProgramsOK'
  BY <1>1 DEF ProgramsOK, clientVars
<1>11. JobInv'
  BY <1>1, <1>3, NoMsgFields DEF JobInv, Answerable, LoginOK
<1>w. WireInv'
  BY <1>1, <1>2, <1>4, NoMsgFields
     DEF WireInv, Wire, clientVars, NetOK
<1>l. LeavingInv'
  BY <1>1, <1>4, NoMsgFields
     DEF LeavingInv, clientVars, NetOK
<1>12. PipeInv'
  <2> SUFFICES ASSUME NEW d \in Patient PROVE Pipe(d)'
    BY DEF PipeInv
  <2>1. Pipe(d) /\ d \in Clients
    BY DEF PipeInv, Patient
  <2>2. QED
    BY <1>1, <1>4, NoMsgFields, <2>1 DEF Pipe, clientVars, NetOK
<1>13. TokenInv'
  BY <1>1, <1>3, NoMsgFields, TokensApart, TokensStay DEF Holds, clientVars
<1>14. (\A d \in Clients : Session(d))'
  BY <1>1, <1>5 DEF SessionInv, Session, Alive, Gone, clientVars
<1>15. JobSession'
  BY <1>4 DEF JobSession
<1>16. ClosedGone'
  BY <1>1, <1>5 DEF SessionInv, ClosedGone, Gone, clientVars
<1>17. LogoutInv'
  BY <1>1, <1>5, NoMsgFields DEF LogoutInv, Alive
<1>18. EntryOfConnection'
  BY <1>1 DEF EntryOfConnection
<1>19. ConnInv'
  BY <1>1, <1>3 DEF ConnInv, LoginOK, clientVars
<1>20. ListingInv'
  BY <1>3 DEF ListingInv, Listing
<1>21. UnlistedInv'
  BY <1>1, <1>2, <1>4 DEF UnlistedInv, Unlisted, LoggedOut, clientVars
<1>22. QED
  BY <1>6, <1>7, <1>8, <1>9, <1>10, <1>11, <1>12, <1>13, <1>14, <1>15, <1>16,
     <1>17, <1>18, <1>19, <1>20, <1>21, <1>w, <1>l
     DEF SessionInv

\* LOGOUT.
LEMMA LogoutStep ==
  ASSUME Inv, NEW c \in Clients, Logout(c)
  PROVE  Inv'
<1> USE DEF Inv, TypesOK, Patient
<1>1. /\ step = "idle" /\ asked[c].kind = "logout"
      /\ asked' = [asked EXCEPT ![c] = NoMsg]
      /\ UNCHANGED <<users, expired, made, connUser, listed, link, answer, clientVars>>
  BY DEF Logout, Begin
<1>2. /\ asked[c] \in Msgs /\ ~asked[c].ok
      /\ asked[c].u \in UserOrNone /\ asked[c].t \in Held
      /\ link[c] \notin {"off", "cut"}
      /\ job.c = Nobody /\ job.m = NoMsg /\ job = NoJob
      /\ c \in Patient => answer[c] = NoMsg
      /\ c \in Patient /\ link[c] = "up" => pending[c] = "logout"
      /\ link[c] = "up" => asked[c].t \in leaving[c]
      /\ link[c] # "up" => me[c] = Nobody /\ answer[c] = NoMsg
  <2>1. link[c] # "up" => me[c] = Nobody /\ answer[c] = NoMsg
    BY <1>1, NoMsgFields DEF WireInv, Wire, NetOK
  <2>2. link[c] = "up" => asked[c].t \in leaving[c]
    BY <1>1 DEF LeavingInv
  <2>3. QED
    BY <1>1, <2>1, <2>2, Begins
<1>3. PICK m \in Msgs :
        /\ job' = [c |-> c, m |-> m] /\ step' = "unlist"
        /\ m.kind = "logout" /\ m.t = asked[c].t /\ m.ok
        /\ c \in Patient => m.u = connUser[c]
  <2>1. c \in Patient => LogoutUser(c) = connUser[c]
    BY <1>1 DEF LogoutUser, Valid, LogoutInv, Alive
  <2>2. LogoutUser(c) \in UserOrNone /\ "logout" \in Kinds
    BY DEF LogoutUser, Valid, ListsOK, DbOK, UserOrNone, Kinds
  <2>3. /\ job' = [c |-> c, m |-> Reply("logout", LogoutUser(c), asked[c].t)]
        /\ step' = "unlist"
    BY DEF Logout, Begin
  <2>4. PICK m \in Msgs : /\ m = Reply("logout", LogoutUser(c), asked[c].t)
                          /\ m.kind = "logout" /\ m.u = LogoutUser(c)
                          /\ m.t = asked[c].t /\ m.ok
    BY <1>2, <2>2, ReplyTyped
  <2>5. QED
    BY <2>1, <2>3, <2>4
<1>4. /\ job' # NoJob /\ job'.c = c /\ job'.m = m /\ job' \in Jobs
      /\ m.kind = "logout" /\ m.kind # "none" /\ ~Busy(c)
      /\ \A d \in Clients : Busy(d)' <=>
           d = c /\ step' \in {"authenticate", "unlist", "answer"}
  BY <1>1, <1>3, NoMsgFields DEF Jobs, Busy
<1>5. /\ sessions' \in [Tokens -> UserOrNone]
      /\ \A x \in Tokens : /\ x # m.t => sessions'[x] = sessions[x]
                           /\ x = m.t => sessions'[x] = Nobody
                           /\ sessions[x] = Nobody => sessions'[x] = Nobody
  BY <1>2, <1>3, WithoutKeeps DEF Logout
<1>6. \A t \in Tokens : t = m.t =>
        /\ t <= made
        /\ \A d \in Clients : token[d] = t \/ asked[d].t = t \/ answer[d].t = t => d = c
  BY <1>3 DEF TokenInv, Holds
<1>7. DbOK'
  BY <1>1, <1>5 DEF DbOK
<1>8. RouterOK'
  BY <1>3, <1>4 DEF RouterOK
<1>9. ListsOK'
  BY <1>1 DEF ListsOK
<1>10. NetOK'
  BY <1>1, NoMsgFields DEF NetOK
<1>11. ProgramsOK'
  BY <1>1 DEF ProgramsOK, clientVars
<1>12. JobInv'
  BY <1>1, <1>3, NoMsgFields DEF JobInv, Answerable, LoginOK
<1>w. WireInv'
  BY <1>1, <1>2, <1>4, NoMsgFields
     DEF WireInv, Wire, clientVars, NetOK
<1>l. LeavingInv'
  BY <1>1, <1>4, NoMsgFields
     DEF LeavingInv, clientVars, NetOK
<1>13. PipeInv'
  <2> SUFFICES ASSUME NEW d \in Patient PROVE Pipe(d)'
    BY DEF PipeInv
  <2>1. Pipe(d) /\ d \in Clients
    BY DEF PipeInv, Patient
  <2>2. QED
    BY <1>1, <1>4, NoMsgFields, <2>1 DEF Pipe, clientVars, NetOK
<1>14. TokenInv'
  BY <1>1, <1>3, NoMsgFields, TokensApart, TokensStay DEF Holds, clientVars
<1>15. (\A d \in Clients : Session(d))'
  <2> SUFFICES ASSUME NEW d \in Clients PROVE Session(d)'
    BY Zenon
  <2>1. Session(d)
    BY DEF SessionInv
  <2>2. /\ me'[d] = me[d] /\ pending'[d] = pending[d] /\ token'[d] = token[d]
        /\ leaving' = leaving
        /\ answer'[d] = answer[d] /\ expired' = expired /\ made' = made
    BY <1>1 DEF clientVars
  <2>3. CASE d = c
    <3>1. CASE link[c] # "up"
      BY <1>2, <2>2, <2>3, <3>1, NoMsgFields DEF Session
    <3>2. CASE link[c] = "up"
      <4>1. /\ m.t \in leaving[c]
            /\ c \in Patient => pending[c] # "none" /\ answer[c].kind = "none"
        BY <1>2, <1>3, <3>2, NoMsgFields
      <4>2. QED
        BY <1>5, <2>1, <2>2, <2>3, <4>1 DEF Session, Alive, Gone
    <3>3. QED
      BY <3>1, <3>2
  <2>4. CASE d # c
    <3>1. \A t \in {token[d], answer[d].t} : t \in Tokens => sessions'[t] = sessions[t]
      BY <1>5, <1>6, <2>4
    <3>2. QED
      BY <2>1, <2>2, <3>1 DEF Session, Alive, Gone
  <2>5. QED
    BY <2>3, <2>4
<1>16. JobSession'
  BY <1>1, <1>4, <1>5, <1>6 DEF JobSession, Gone
<1>17. ClosedGone'
  BY <1>1, <1>5 DEF SessionInv, ClosedGone, Gone, clientVars
<1>18. LogoutInv'
  BY <1>1, <1>5, <1>6, NoMsgFields DEF LogoutInv, Alive, NetOK
<1>19. EntryOfConnection'
  BY <1>1 DEF EntryOfConnection
<1>20. ConnInv'
  BY <1>1, <1>3 DEF ConnInv, clientVars
<1>21. ListingInv'
  BY <1>3 DEF ListingInv, Listing
<1>22. UnlistedInv'
  BY <1>1, <1>3, NoMsgFields
     DEF UnlistedInv, Unlisted, LoggedOut, AuthKinds, clientVars
<1>23. QED
  BY <1>7, <1>8, <1>9, <1>10, <1>11, <1>12, <1>13, <1>14, <1>15, <1>16, <1>17,
     <1>18, <1>19, <1>20, <1>21, <1>22, <1>w, <1>l
     DEF SessionInv

\* A gameplay handler asks whose token it is.
LEMMA PlayStep ==
  ASSUME Inv, NEW c \in Clients, Play(c)
  PROVE  Inv'
<1> USE DEF Inv, TypesOK, Patient
<1>1. /\ step = "idle" /\ asked[c].kind = "play"
      /\ asked' = [asked EXCEPT ![c] = NoMsg]
      /\ UNCHANGED <<users, expired, made, serverVars, link, answer, clientVars>>
  BY DEF Play
<1>2. asked[c].t \in Held /\ job.c = Nobody
  BY <1>1, Begins
<1>3. /\ sessions' \in [Tokens -> UserOrNone]
      /\ \A x \in Tokens : /\ Alive(x) => sessions'[x] = sessions[x]
                           /\ sessions[x] = Nobody => sessions'[x] = Nobody
  BY <1>2, CleanedKeeps DEF Play
<1>4. DbOK'
  BY <1>1, <1>3 DEF DbOK
<1>5. RouterOK'
  BY <1>1 DEF RouterOK, serverVars
<1>6. ListsOK'
  BY <1>1 DEF ListsOK, serverVars
<1>7. NetOK'
  BY <1>1, NoMsgFields DEF NetOK
<1>8. ProgramsOK'
  BY <1>1 DEF ProgramsOK, clientVars
<1>9. JobInv'
  BY <1>1, NoMsgFields DEF JobInv, serverVars
<1>w. WireInv'
  BY <1>1
     DEF WireInv, Wire, serverVars, clientVars, NetOK
<1>l. LeavingInv'
  BY <1>1, NoMsgFields
     DEF LeavingInv, serverVars, clientVars, NetOK
<1>10. PipeInv'
  <2> SUFFICES ASSUME NEW d \in Patient PROVE Pipe(d)'
    BY DEF PipeInv
  <2>1. Pipe(d) /\ d \in Clients
    BY DEF PipeInv, Patient
  <2>2. QED
    BY <1>1, <2>1 DEF Pipe, Busy, serverVars, clientVars
<1>11. TokenInv'
  BY <1>1, NoMsgFields, TokensApart, TokensStay
     DEF Holds, serverVars, clientVars
<1>12. (\A d \in Clients : Session(d))'
  BY <1>1, <1>3 DEF SessionInv, Session, Alive, Gone, clientVars
<1>13. JobSession'
  BY <1>1, <1>3 DEF SessionInv, JobSession, Gone, serverVars
<1>14. ClosedGone'
  BY <1>1, <1>3 DEF SessionInv, ClosedGone, Gone, clientVars
<1>15. LogoutInv'
  BY <1>1, <1>3, NoMsgFields DEF LogoutInv, Alive, serverVars
<1>16. EntryOfConnection'
  BY <1>1 DEF EntryOfConnection, serverVars
<1>17. ConnInv'
  BY <1>1 DEF ConnInv, serverVars, clientVars
<1>18. ListingInv'
  BY <1>1 DEF ListingInv, Listing, serverVars
<1>19. UnlistedInv'
  BY <1>1, NoMsgFields
     DEF UnlistedInv, Unlisted, LoggedOut, Busy, AuthKinds, serverVars,
         clientVars
<1>20. QED
  BY <1>4, <1>5, <1>6, <1>7, <1>8, <1>9, <1>10, <1>11, <1>12, <1>13, <1>14,
     <1>15, <1>16, <1>17, <1>18, <1>19, <1>w, <1>l
     DEF SessionInv

-----------------------------------------------------------------------------
(* The invariant holds.                                                    *)

\* Initially nobody has connected and the tables are empty.
LEMMA InvInit == Init => Inv
<1> SUFFICES ASSUME Init PROVE Inv
  OBVIOUS
<1>1. DbOK /\ ListsOK
  BY SessionsAssumption DEF Init, DbOK, ListsOK, UserOrNone
<1>2. RouterOK /\ NetOK
  BY NoMsgFields DEF Init, RouterOK, NetOK
<1>3. ProgramsOK
  BY DEF Init, ProgramsOK, UserOrNone, Held, TokenOrNone, Requested
<1>4. JobInv
  BY NoMsgFields DEF Init, JobInv, Answerable, LoginOK
<1>5. WireInv /\ PipeInv /\ LeavingInv /\ ListingInv
  BY NoMsgFields, TokensApart
     DEF Init, WireInv, Wire, PipeInv, Pipe, LeavingInv, ListingInv, Listing,
         Busy, AuthKinds, Patient
<1>6. TokenInv
  BY NoMsgFields, TokensApart DEF Init, TokenInv, Holds
<1>7. SessionInv
  BY NoMsgFields DEF Init, SessionInv, Session, JobSession, ClosedGone
<1>8. LogoutInv /\ ConnInv
  BY NoMsgFields DEF Init, LogoutInv, ConnInv, Patient
<1>9. UnlistedInv /\ EntryOfConnection
  BY TokensApart DEF Init, UnlistedInv, Unlisted, EntryOfConnection, Patient
<1>10. QED
  BY <1>1, <1>2, <1>3, <1>4, <1>5, <1>6, <1>7, <1>8, <1>9 DEF Inv, TypesOK

\* Every step keeps the invariant.
LEMMA InvNext == Inv /\ [Next]_vars => Inv'
<1> SUFFICES ASSUME Inv, [Next]_vars PROVE Inv'
  OBVIOUS
<1>1. CASE Router
  BY <1>1, AuthenticateStep, UnlistStep, AnswerStep, ListStep DEF Router
<1>2. CASE Restart
  BY <1>2, RestartStep
<1>3. ASSUME NEW c \in Clients, Handle(c) PROVE Inv'
  BY <1>3, RegisterStep, RefusedStep, LoginStep, ValidateStep, LogoutStep,
     PlayStep
     DEF Handle
<1>4. ASSUME NEW c \in Clients, Answered(c) PROVE Inv'
  <2>1. /\ answer' = [answer EXCEPT ![c] = NoMsg]
        /\ pending' = [pending EXCEPT ![c] = "none"]
        /\ UNCHANGED <<dbVars, serverVars, link, asked, leaving>>
    BY <1>4 DEF Answered
  <2>2. \/ RegisterAnswered(c) \/ LoginAnswered(c)
        \/ LogoutAnswered(c) \/ ValidateAnswered(c) \/ Misread(c)
    BY <1>4 DEF Answered
  <2>3. QED
    BY <2>1, <2>2, RegisterAnsweredStep, LoginAnsweredStep, LogoutAnsweredStep,
       ValidateAnsweredStep, MisreadStep
<1>5. ASSUME NEW c \in Clients,
             StartFails(c) \/ Start(c) \/ Ask(c) \/ Quit(c) \/ RemoveClient(c)
      PROVE  Inv'
  BY <1>5, StartFailsStep, StartStep, AskStep, QuitStep, RemoveClientStep
<1>6. ASSUME NEW t \in Tokens, Expire(t) PROVE Inv'
  BY <1>6, ExpireStep
<1>7. CASE UNCHANGED vars
  <2>1. UNCHANGED <<dbVars, serverVars, netVars, clientVars>>
    BY <1>7 DEF vars
  <2>2. TypesOK' /\ JobInv' /\ WireInv' /\ PipeInv' /\ LeavingInv'
    BY <2>1
       DEF Inv, TypesOK, DbOK, RouterOK, ListsOK, NetOK, ProgramsOK, JobInv,
           WireInv, Wire, LeavingInv, PipeInv, Pipe, Busy, dbVars, serverVars, netVars, clientVars
  <2>3. TokenInv' /\ SessionInv' /\ LogoutInv'
    BY <2>1
       DEF Inv, TokenInv, Holds, SessionInv, Session, JobSession, ClosedGone,
           Gone, Alive, LogoutInv, dbVars, serverVars, netVars, clientVars
  <2>4. ConnInv' /\ ListingInv' /\ UnlistedInv' /\ EntryOfConnection'
    BY <2>1
       DEF Inv, ConnInv, ListingInv, Listing, UnlistedInv, Unlisted, LoggedOut,
           Busy, EntryOfConnection, serverVars, netVars, clientVars
  <2>5. QED
    BY <2>2, <2>3, <2>4 DEF Inv
<1>8. QED
  BY <1>1, <1>2, <1>3, <1>4, <1>5, <1>6, <1>7 DEF Next

\* The invariant holds in every state the program reaches.
LEMMA InvAlways == Spec => []Inv
BY InvInit, InvNext, PTL DEF Spec

\* Every variable keeps its type: no message is of a kind its receiver does not
\* know, and only a handler that runs has a step to take.
THEOREM TypeCorrect == Spec => []TypeOK
<1>1. Inv => TypeOK
  BY DEF Inv, TypesOK, DbOK, RouterOK, ListsOK, NetOK, ProgramsOK, AnyMsg,
         Requested, TypeOK
<1>2. QED
  BY <1>1, InvAlways, PTL

\* A client that logged in with a password has its session until it expires or
\* the client logs out with it, over restarts of the server, whatever other
\* clients do and whether or not its user waits for answers (auth_handler.cpp: handleLogin, handleLogout; database.cpp: the table
\* sessions).
THEOREM SessionsKept == Spec => []OwnSessionKept
<1>1. Inv => OwnSessionKept
  BY DEF Inv, SessionInv, Session, OwnSessionKept, Alive, Valid
<1>2. QED
  BY <1>1, InvAlways, PTL

\* A token that a client was told is logged out never counts again
\* (auth_handler.cpp: handleLogout; database.cpp: deleteSession).
THEOREM LogoutsFinal == Spec => []LogoutFinal
<1>1. Inv => LogoutFinal
  BY DEF Inv, SessionInv, ClosedGone, Gone, LogoutFinal, Valid
<1>2. QED
  BY <1>1, InvAlways, PTL

\* Every entry of the player list that holds the connection of a client whose
\* user waits for each answer is that of the connection's user, so that
\* removeClient removes it (auth_handler.cpp: the order of setAuthenticated, the
\* answer, addPlayer and removePlayer), whatever the impatient clients do: with a
\* second LOGIN before the first one's answer the claim is false of them, and of
\* no other.
THEOREM EntriesOfConnections == Spec => []EntryOfConnection
<1>1. Inv => EntryOfConnection
  BY DEF Inv
<1>2. QED
  BY <1>1, InvAlways, PTL

=============================================================================
