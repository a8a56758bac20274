------------------------------ MODULE Requests ------------------------------
(***************************************************************************)
(* What the modules of the smaller components share: the requests that run *)
(* at the same time, and the users they act for or upon.  A request is one *)
(* PostgreSQL transaction at READ COMMITTED; in every module its state is   *)
(* the position between two statements, what it has read and what it is     *)
(* going to write.  The variables of a module hold committed rows, so a     *)
(* request that fails simply returns to its idle state.                     *)
(***************************************************************************)
EXTENDS FiniteSets
CONSTANTS
  Request,
  User,
  None

ASSUME NoneIsNoUser     == None \notin User
ASSUME RequestsAreFinite == IsFiniteSet(Request)   \* the workers of a deployment
ASSUME UsersAreFinite    == IsFiniteSet(User)

(* No other request is at one of these positions (where it holds the row). *)
FreeFor(req, p, held) == \A q \in Request \ {p} : req[q].pc \notin held

=============================================================================
