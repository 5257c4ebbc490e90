-------------------------- MODULE PrincipalSessions --------------------------
(***************************************************************************)
(* The sessions of AuthSessions with the principal of PrincipalLifecycle.  *)
(* In AuthSessions the principal does whatever SecurityStamp allows; here  *)
(* it is what instances in several hands, some of them dirty, make of its  *)
(* row.  A login loads the row, an operation of a session does not write   *)
(* it: the two parts share the row and the clock, and take turns.          *)
(***************************************************************************)
EXTENDS PrincipalLifecycle

CONSTANTS
  Login,        \* logins and token refreshes in progress
  AuthSession,  \* session rows
  Lifetime      \* session and session lock lifetimes, in ticks of the clock

ASSUME LoginAssumption == Login \cap AuthSession = {}
ASSUME LifetimeAssumption == Lifetime \subseteq Nat \ {0}

VARIABLES
  read,      \* read[w]: the instance of the principal a login works with
  sessions,  \* sessions[s]: the stored row of s
  current    \* ghost: see AuthSessions

principalVars == <<row, mem, ops>>
systemVars == <<vars, read, sessions, current>>

\* The columns that a login or a check of a session reads.
Shown == [stamp |-> row.stamp, life |-> row.life]

\* Each operation bumps the stamp once at most.
Sessions ==
  INSTANCE AuthSessions WITH
    Worker <- Login, Duration <- Lifetime, principal <- Shown,
    PrincipalLife <- Columns, MaxStamp <- MaxOps + 1

SystemInit == Init /\ Sessions!SessionsInit

PrincipalStep ==
  /\ Next
  /\ current' = IF Sessions!Cut(Shown, Shown') THEN {} ELSE current
  /\ UNCHANGED <<read, sessions>>

SessionStep == UNCHANGED principalVars /\ Sessions!SessionsStep

SystemNext == PrincipalStep \/ SessionStep

SystemSpec == SystemInit /\ [][SystemNext]_systemVars

-----------------------------------------------------------------------------
\* Whatever the operations of the principal do, the sessions live with a principal
\* as AuthSessions assumes it.
KeepsSessionsPromise == Sessions!SessionsSpec
NoSessionOutlivesRestriction == Sessions!NoSessionOutlivesCut
=============================================================================
