----------------------------- MODULE UserManager -----------------------------
(***************************************************************************)
(* UserManager (UserManager.h): the registry of the connected users.  A    *)
(* user is identified with the index of its connection slot.  The registry *)
(* is a set and a separate counter of its members; both are written under  *)
(* UserManager::mLock, so each operation is one step.                      *)
(***************************************************************************)
EXTENDS Naturals, FiniteSets

CONSTANT Users              \* the connection slots, 0..mMaxUserCnt-1

ASSUME UsersAssumption == IsFiniteSet(Users)

VARIABLES mUserIDDictionary,   \* the registered slots
          mCurrentUserCnt      \* the counter kept beside the set

registryVars == <<mUserIDDictionary, mCurrentUserCnt>>

RegistryTypeOK == /\ mUserIDDictionary \subseteq Users
                  /\ mCurrentUserCnt \in Nat

RegistryInit == /\ mUserIDDictionary = {}
                /\ mCurrentUserCnt = 0

(* The counter grows even when the slot is already in the set. *)
AddUser(u) == /\ mUserIDDictionary' = mUserIDDictionary \union {u}
              /\ mCurrentUserCnt' = mCurrentUserCnt + 1

(* Mutant: the guard that keeps the counter from going below zero left out. *)
DeleteUserUnguarded(u) == /\ mUserIDDictionary' = mUserIDDictionary \ {u}
                          /\ mCurrentUserCnt' = mCurrentUserCnt - 1

(* The counter shrinks even when the slot is not in the set, but not below *)
(* zero.  The user's name and items stay where they are.                   *)
DeleteUser(u) == /\ mUserIDDictionary' = mUserIDDictionary \ {u}
                 /\ mCurrentUserCnt' = IF mCurrentUserCnt > 0
                                       THEN mCurrentUserCnt - 1 ELSE 0
=============================================================================
