------------------------------- MODULE Teams -------------------------------
(* The Teams registration (registration/teams.rs) as the recovery loop uses  *)
(* it: each round calls ensure_account under what is left of its 120 s       *)
(* budget, which drops the call at any await; a call draws one key, posts it *)
(* up to `retries` times and saves the account.  An answer may be lost after *)
(* the API has acted, the write may fail, the process may crash.  The token  *)
(* is taken to be present and well formed: without one no call posts.        *)
EXTENDS Naturals

CONSTANTS Retries,      \* register_retries.max(1)
          RetryDelay,   \* register_retry_delay
          Asks,         \* what Retry-After may ask for; 0 stands for no header
          PostTimeout,  \* the HTTP client's 30 s
          RoundBudget,  \* the 120 s of a round
          MaxCalls, MaxCrashes

ASSUME TeamsAssumption ==
  /\ Retries \in Nat \ {0} /\ RetryDelay \in Nat /\ Asks \subseteq Nat
  /\ PostTimeout \in Nat /\ RoundBudget \in Nat /\ MaxCalls \in Nat /\ MaxCrashes \in Nat

VARIABLES teamsAt,
          calls,      \* calls of register; the n-th call's key is n
          tries,      \* attempt
          known,      \* keys registered at the API
          account,    \* the key in the account file, NoAccount or Torn
          given,      \* keys given up by a call that failed or was dropped
          crashes,
          \* Times still to go:
          wakeIn,     \* until the request times out, or the sleep ends
          roundLeft,  \* until the round's budget drops the call
          asked,      \* of the Retry-After this call was answered with
          promised    \* of the wait last announced for a Retry-After

times == <<wakeIn, roundLeft, asked, promised>>
teamsVars == <<teamsAt, calls, tries, known, account, given, crashes, times>>

NoAccount == 0
Torn == MaxCalls + 1
Later(a, b) == IF a > b THEN a ELSE b

TInit ==
  /\ teamsAt = "between" /\ calls = 0 /\ tries = 0
  /\ wakeIn = 0 /\ roundLeft = 0 /\ known = {} /\ account = NoAccount /\ given = {}
  /\ asked = 0 /\ promised = 0 /\ crashes = 0

\* ensure_account: an account file is used, whatever the API thinks of it; a
\* file that does not parse fails the round.
UseAccount ==
  /\ teamsAt = "between" /\ account # NoAccount
  /\ teamsAt' = IF account = Torn THEN "between" ELSE "ready"
  /\ UNCHANGED <<calls, tries, known, account, given, crashes, times>>

\* No file: register draws a key and posts it.  MASQUE has used up some of
\* the round's budget before.
StartCall ==
  /\ teamsAt = "between" /\ account = NoAccount /\ calls < MaxCalls
  /\ teamsAt' = "post" /\ calls' = calls + 1 /\ tries' = 1 /\ asked' = 0
  /\ wakeIn' = PostTimeout /\ roundLeft' \in 1..RoundBudget
  /\ UNCHANGED <<known, account, given, promised, crashes>>

\* The call ends without an account; the round fails.
CallFails ==
  /\ teamsAt' = "between" /\ given' = given \cup {calls}
  /\ UNCHANGED <<tries, wakeIn, asked, promised>>

\* The wait before the next attempt; a Retry-After may lengthen it.
BadPause(ask) == RetryDelay * tries
Pause(ask) == Later(RetryDelay * tries, ask)

\* Any failure that is not final; the announcement goes with status 429.
AttemptFails(ask) ==
  IF tries >= Retries
  THEN CallFails
  ELSE /\ teamsAt' = "sleep" /\ wakeIn' = Pause(ask) /\ asked' = ask
       /\ promised' = IF ask > 0 THEN ask ELSE promised
       /\ UNCHANGED <<tries, given>>

\* 200 with an account that parses.
Accepted ==
  /\ teamsAt = "post" /\ teamsAt' = "save" /\ known' = known \cup {calls}
  /\ UNCHANGED <<calls, tries, account, given, crashes, times>>

\* The API may have acted on a request whose answer never comes to count.
Acts == known' \in {known, known \cup {calls}}

\* Refused, lost, late, or 200 without an account in it.
NotAccepted ==
  /\ teamsAt = "post" /\ Acts /\ \E ask \in Asks : AttemptFails(ask)
  /\ UNCHANGED <<calls, roundLeft, account, crashes>>

\* An account that does not parse, or an expired token, ends the call at once.
CallRejected ==
  /\ teamsAt = "post" /\ Acts /\ CallFails
  /\ UNCHANGED <<calls, roundLeft, account, crashes>>

\* The next attempt posts the same key again.
TryAgain ==
  /\ teamsAt = "sleep" /\ wakeIn = 0
  /\ teamsAt' = "post" /\ tries' = tries + 1 /\ wakeIn' = PostTimeout
  /\ UNCHANGED <<calls, roundLeft, known, account, given, asked, promised, crashes>>

\* WgAccount::save through write_private: all of it or nothing.
SaveAccount ==
  /\ teamsAt = "save"
  /\ \/ account' = calls /\ teamsAt' = "ready" /\ UNCHANGED <<tries, given, wakeIn, asked, promised>>
     \/ UNCHANGED account /\ CallFails
  /\ UNCHANGED <<calls, roundLeft, known, crashes>>

\* The timeout around the round drops the call where it waits.
Awaiting == teamsAt \in {"post", "sleep"}
Dropped ==
  /\ Awaiting /\ roundLeft = 0 /\ CallFails
  /\ IF teamsAt = "post" THEN Acts ELSE UNCHANGED known
  /\ UNCHANGED <<calls, roundLeft, account, crashes>>

\* The tunnel built on the account ends, and with it the round.
RoundOver ==
  /\ teamsAt = "ready" /\ teamsAt' = "between"
  /\ UNCHANGED <<calls, tries, known, account, given, crashes, times>>

\* The process dies at any point; with the power, a file just renamed into
\* place may be torn.
TeamsCrash ==
  /\ crashes < MaxCrashes /\ crashes' = crashes + 1
  /\ teamsAt' = "between"
  /\ given' = given \cup ({calls} \ {0, account})
  /\ account' \in {account} \cup (IF account = NoAccount THEN {} ELSE {Torn})
  /\ IF teamsAt = "post" THEN Acts ELSE UNCHANGED known
  /\ UNCHANGED <<calls, tries, times>>

\* Timers fire on time: a call is not awaited past its budget, nor a request
\* past its timeout.
Less(t) == IF t = 0 THEN 0 ELSE t - 1
TeamsTick ==
  /\ Awaiting => roundLeft > 0 /\ wakeIn > 0
  /\ teamsAt # "save"
  /\ wakeIn' = Less(wakeIn) /\ roundLeft' = Less(roundLeft)
  /\ asked' = Less(asked) /\ promised' = Less(promised)
  /\ UNCHANGED <<teamsAt, calls, tries, known, account, given, crashes>>

TNext ==
  \/ UseAccount \/ StartCall \/ Accepted \/ NotAccepted \/ CallRejected
  \/ TryAgain \/ SaveAccount \/ Dropped \/ RoundOver \/ TeamsCrash \/ TeamsTick

TSpec == TInit /\ [][TNext]_teamsVars

-----------------------------------------------------------------------------
\* One registration, and one account of it.  A round that goes on does so with
\* a key the API knows; a key the API knows is the one in the file, in the
\* hands of the call, or was given up by a call that failed, whatever was lost
\* on the way; and within a call no attempt comes before the API asked for it,
\* nor after the last one allowed (teams.rs:141-218).
TeamsSound ==
  /\ teamsAt = "ready" => account \in known
  /\ teamsAt \in {"between", "ready"} /\ account # Torn => known \ given \subseteq {account}
  /\ Awaiting => account = NoAccount /\ tries <= Retries
  /\ teamsAt = "post" => asked = 0

\* "Retry-After is honoured, so that the API is not hit again at once"
\* (teams.rs:214): once the wait is announced, no request before its end.
RetryAfterHonoured == teamsAt = "post" => promised = 0
=============================================================================
