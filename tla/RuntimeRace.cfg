SPECIFICATION Spec
CONSTANTS
  Callers = {t1, t2}
  here = here
  there = there
  me = me
  you = you
  sHere = sHere
  sThere = sThere
  sEnv = sEnv
  sClient = sClient
  sGrant = sGrant
  fClient = fClient
  fKey = fKey
  Endpoints = {here, there}
  Users = {me, you}
  Secrets = {sHere, sThere, sEnv, sClient, sGrant}
  Limits = {10, 100}
  Files = {fClient, fKey}
  Holds <- MCHolds
  Default <- MCDefault
  Original <- MCOriginal
  Profiles <- MCProfiles
  Patches <- MCMoves
  Env <- MCEnvUnset
  MaxCalls = 2
  None = none
INVARIANT CredentialsStayHome
