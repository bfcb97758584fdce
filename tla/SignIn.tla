---------------------------------- MODULE SignIn ----------------------------------
(***************************************************************************)
(* The accounts of the keyless sign-in (lib/dev-users.ts): a JSON file     *)
(* that every sign-up reads whole, and writes whole after it has hashed    *)
(* the password.  Requests interleave at each await; fs.writeFile          *)
(* truncates the file first and fills it later, and the server may stop in *)
(* between.  A file that does not parse is read as one without accounts.   *)
(***************************************************************************)
EXTENDS Naturals, FiniteSets

CONSTANTS
    Emails,         \* the addresses people sign up with, normalized
    MaxSignUps,     \* bound: sign-ups
    MaxCrashes,     \* bound: server crashes
    DemoPassword    \* whether one who signs in may type the shared demo password

ASSUME SignInAssumption == MaxSignUps \in Nat /\ MaxCrashes \in Nat /\ DemoPassword \in BOOLEAN

VARIABLES
    file,           \* .dev-users.json
    signup,         \* per sign-up, in the order they came: where it is
    session,        \* the address in the visitor's session cookie
    turnedAway,     \* ghost: accounts refused with their own password, and the file then
    atRisk,        \* ghost: accounts that an overlap or a crash may have cost
    crashes         \* server crashes so far

signInVars == <<file, signup, session, turnedAway, atRisk, crashes>>

SignUps == 1..MaxSignUps
NoSession == "nobody"
Stored(holds, accounts) == [holds |-> holds, accounts |-> accounts]
Awaited == [at |-> "to come", email |-> "none", saw |-> {}]

SignInInit ==
    /\ file = Stored("nothing", {})
    /\ signup = [n \in SignUps |-> Awaited]
    /\ session = NoSession
    /\ turnedAway = {} /\ atRisk = {} /\ crashes = 0

InFlight == {n \in SignUps : signup[n].at \in {"hashing", "opened"}}
Acknowledged == {n \in SignUps : signup[n].at = "acknowledged"}

\* readAll: nothing, half a file and a garbled one are no accounts.
ReadAll == IF file.holds = "list" THEN file.accounts ELSE {}

\* Whatever is in the file, or on its way to it, while two sign-ups overlap.
Expose(who) == atRisk' = IF Cardinality(who) > 1 THEN atRisk \cup Acknowledged \cup who
                          ELSE atRisk

\* createDevUser, up to the hash.
CreateDevUser(n, email) ==
    /\ signup[n].at = "to come" /\ \A m \in 1..(n - 1) : signup[m].at # "to come"
    /\ IF \E m \in ReadAll : signup[m].email = email
       THEN signup' = [signup EXCEPT ![n] = [at |-> "refused", email |-> email, saw |-> {}]]
            /\ UNCHANGED atRisk
       ELSE signup' = [signup EXCEPT ![n] = [at |-> "hashing", email |-> email, saw |-> ReadAll]]
            /\ Expose(InFlight \cup {n})
    /\ UNCHANGED <<file, session, turnedAway, crashes>>

\* writeAll opens the file, and empties it.
OpenFile(n) ==
    /\ signup[n].at = "hashing"
    /\ file' = Stored("nothing", {})
    /\ signup' = [signup EXCEPT ![n].at = "opened"]
    /\ UNCHANGED <<session, turnedAway, atRisk, crashes>>

\* Mutant: the new account only.
PushedAlone(n) == {n}

\* What is written: the list that was read, and the new account.
Pushed(n) == signup[n].saw \cup {n}

\* createDevSession: the cookie names the address.
SignsIn(n) == session' = signup[n].email

\* Over what another has written meanwhile a shorter list leaves the tail of the longer.
WriteAll(n) ==
    /\ signup[n].at = "opened"
    /\ \/ file' = Stored("list", Pushed(n))
       \/ file.holds # "nothing" /\ file' = Stored("garbled", {})
    /\ signup' = [signup EXCEPT ![n].at = "acknowledged"]
    /\ SignsIn(n)
    /\ UNCHANGED <<turnedAway, atRisk, crashes>>

\* An account is found by its address; another of that address has another password.
VerifyDevUser(n) == n \in ReadAll

\* verifyDevLogin, with the password of the account or with the demo password.
LogIn(n) ==
    /\ n \in Acknowledged
    /\ \/ (VerifyDevUser(n) \/ DemoPassword)
          /\ SignsIn(n) /\ UNCHANGED turnedAway
       \/ ~VerifyDevUser(n)
          /\ turnedAway' = turnedAway \cup {<<n, file.holds>>} /\ UNCHANGED session
    /\ UNCHANGED <<file, signup, atRisk, crashes>>

LogOut ==
    /\ session # NoSession /\ session' = NoSession
    /\ UNCHANGED <<file, signup, turnedAway, atRisk, crashes>>

\* Sessions are signed cookies and outlive the server; what it was writing does not.
ServerCrash ==
    /\ crashes < MaxCrashes /\ InFlight # {}
    /\ crashes' = crashes + 1
    /\ signup' = [n \in SignUps |-> IF n \in InFlight THEN [signup[n] EXCEPT !.at = "gone"]
                                    ELSE signup[n]]
    /\ atRisk' = IF \E n \in InFlight : signup[n].at = "opened"
                  THEN atRisk \cup Acknowledged ELSE atRisk
    /\ UNCHANGED <<file, session, turnedAway>>

SignInNext ==
    \/ \E n \in SignUps :
        \/ \E email \in Emails : CreateDevUser(n, email)
        \/ OpenFile(n) \/ WriteAll(n) \/ LogIn(n)
    \/ LogOut \/ ServerCrash

SignInSpec == SignInInit /\ [][SignInNext]_signInVars

-----------------------------------------------------------------------------
(* Who was told that the account exists has it: it is in the file, or about  *)
(* to be written back by the one sign-up that has emptied the file, and its  *)
(* password is refused during such a rewriting at most.  Exempt are accounts *)
(* that were there, or being made, while two sign-ups overlapped or a server *)
(* stopped with the file emptied: those the code may lose.  And whatever     *)
(* overlaps, no address ever has two accounts in the file.                   *)
AccountsKept ==
    /\ \A n \in Acknowledged \ atRisk :
        \/ n \in ReadAll
        \/ \E m \in SignUps : signup[m].at = "opened" /\ n \in signup[m].saw
    /\ \A refusal \in turnedAway : refusal[2] = "list" => refusal[1] \in atRisk
    /\ \A n, m \in ReadAll : signup[n].email = signup[m].email => n = m
=============================================================================
