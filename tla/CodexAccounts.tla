--------------------------- MODULE CodexAccounts ---------------------------
(***************************************************************************)
(* The accounts of the Codex subscription: auth files on a shared volume,   *)
(* which the dashboard writes and deletes (codex_auth.py, CodexAuthStore,   *)
(* in auth_proxy.py), and the one process that serves calls with them, the  *)
(* broker or the router, which keeps a CodexAuth object per account, loads   *)
(* its file when first asked for a token, refreshes the token when it is    *)
(* about to expire and writes it back.  The dashboard asks for a reload     *)
(* after each change, which may fail.  The single auth file of an older      *)
(* release, when there is one, stands in for the account "default" while    *)
(* that has no file of its own.                                            *)
(*                                                                         *)
(* A token is the login it comes from and its generation: the provider      *)
(* replaces the refresh token each time it is used.  A refresh blocks the   *)
(* event loop of its process, so there is one at a time; a reload runs in   *)
(* another thread, and the dashboard in another process.                   *)
(*                                                                         *)
(* Simplifications: a file is written in one step; names are numbers, in    *)
(* their order; the round-robin cursor is kept modulo the accounts.        *)
(***************************************************************************)
EXTENDS Integers, FiniteSets, Functions

CONSTANTS Names,     \* account names, positive numbers
          Default,   \* the one called "default"
          MaxLogins, \* bound on the logins stored
          MaxRefresh \* bound on the refreshes that the provider grants

VARIABLES file,      \* auth files, the legacy one among them: account_id, tokens, or NoFile
          logins,    \* logins stored so far
          last,      \* the login the dashboard last stored under each name, 0 if deleted
          selected,  \* _selection.json
          cursor,    \* _rr
          held,      \* CodexAuth objects: unloaded, loaded with tokens, or absent
          path,      \* the file each object reads and writes
          flight,    \* the refresh under way: its object, or NoFlight
          current,   \* the generation of each login the provider accepts
          applied    \* ghost: names whose last change was reloaded while no refresh
                     \* was under way, and whose refreshes were all answered and saved

vars == <<file, logins, last, selected, cursor, held, path, flight, current, applied>>

Legacy == 0  \* _legacy_path
OldLogin == MaxLogins + 1
Logins == 1..OldLogin
NoFile == [id |-> 0, login |-> 0, gen |-> 0]
Absent == [id |-> -1]
Unloaded == [id |-> -2]
Auto == 0
Balanced == -1
NoFlight == [name |-> 0]
Loaded(o) == o \notin {Absent, Unloaded}

\* _account_path: the file that stands for an account.
PathOf(n) == IF n = Default /\ file[n] = NoFile THEN Legacy ELSE n
Backed(n) == file[PathOf(n)]
Paths     == [n \in Names |-> PathOf(n)]

Present == {n \in Names : held[n] # Absent}

\* Mutant of Rescanned: objects of accounts that are still there are kept.
RescanKeeping == [n \in Names |-> IF Backed(n) = NoFile THEN Absent
                                  ELSE IF held[n] = Absent THEN Unloaded ELSE held[n]]

Rescanned == [n \in Names |-> IF Backed(n) = NoFile THEN Absent ELSE Unloaded]

Saved(l) == [id |-> l, login |-> l, gen |-> 0]

Init == /\ \E old \in {NoFile, Saved(OldLogin)} :
             file = [p \in Names \cup {Legacy} |-> IF p = Legacy THEN old ELSE NoFile]
        /\ logins = 0 /\ last = [n \in Names |-> 0] /\ selected = Auto /\ cursor = 0
        /\ held = [n \in Names |-> IF Backed(n) = NoFile THEN Absent ELSE Unloaded]
        /\ path = Paths /\ flight = NoFlight
        /\ current = [l \in Logins |-> 0] /\ applied = Names

(***************************************************************************)
(* The dashboard                                                           *)
(***************************************************************************)
\* add_account, pasted by an admin or signed in through an invite.
Add(n) == /\ logins < MaxLogins /\ logins' = logins + 1
          /\ file' = [file EXCEPT ![n] = Saved(logins')]
          /\ last' = [last EXCEPT ![n] = logins'] /\ applied' = applied \ {n}
          /\ UNCHANGED <<selected, cursor, held, path, flight, current>>

\* delete_account: also when the file cannot be removed, it is said to be.
Delete(n) == /\ file[n] # NoFile
             /\ \/ file' = [file EXCEPT ![n] = NoFile]
                \/ UNCHANGED file
             /\ last' = [last EXCEPT ![n] = 0] /\ applied' = applied \ {n}
             /\ UNCHANGED <<logins, selected, cursor, held, path, flight, current>>

\* set_selection: an account the dashboard finds on the volume.
Select(mode) == /\ mode \in {Auto, Balanced} \cup {n \in Names : Backed(n) # NoFile}
                /\ selected # mode /\ selected' = mode
                /\ UNCHANGED <<file, logins, last, cursor, held, path, flight, current, applied>>

(***************************************************************************)
(* The serving process                                                     *)
(***************************************************************************)
\* The login an account should have: the last that was stored under its name, and
\* for "default" without one the login of the older release.
Wanted(n) == IF n = Default /\ last[n] = 0 /\ file[Legacy] # NoFile THEN OldLogin ELSE last[n]

\* What the last change of an account made of it is now what the process uses.
Settled(n) == /\ Backed(n).id = Wanted(n) /\ Backed(n).login = Wanted(n)
              /\ Wanted(n) # 0 => Backed(n).gen = current[Wanted(n)]

Apply == applied' = IF flight = NoFlight THEN applied \cup {n \in Names : Settled(n)}
                    ELSE applied \ {flight.name}

Reload == /\ held' = Rescanned /\ path' = Paths /\ Apply
          /\ UNCHANGED <<file, logins, last, selected, cursor, flight, current>>

Restart == /\ held' = Rescanned /\ path' = Paths /\ flight' = NoFlight /\ cursor' = 0
           /\ applied' = IF flight = NoFlight THEN applied ELSE applied \ {flight.name}
           /\ UNCHANGED <<file, logins, last, selected, current>>

\* _current: the selected account, the one at the cursor, or the first.
Place(n) == Cardinality({m \in Present : m < n})
Current == IF selected \in Present THEN selected
           ELSE CHOOSE n \in Present :
                  Place(n) = IF selected = Balanced
                             THEN cursor % Cardinality(Present) ELSE 0

Advance == cursor' = IF selected = Balanced THEN (cursor + 1) % Cardinality(Names)
                                              ELSE cursor

\* access_token of a call: the object is loaded, and its token still good.
Serve == /\ flight = NoFlight /\ Present # {} /\ Advance
         /\ held' = [held EXCEPT ![Current] = IF Loaded(@) THEN @ ELSE file[path[Current]]]
         /\ UNCHANGED <<file, logins, last, selected, path, flight, current, applied>>

\* _refresh: the request is on its way; the provider may have answered it.
Refresh ==
    /\ flight = NoFlight /\ Present # {} /\ Advance
    /\ LET n == Current
           o == IF Loaded(held[n]) THEN held[n] ELSE file[path[n]]
       IN /\ o # NoFile /\ (o.gen = current[o.login] => SumFunction(current) < MaxRefresh)
          /\ held' = [held EXCEPT ![n] = o]
          /\ flight' = [name |-> n, path |-> path[n], object |-> o,
                        good |-> o.gen = current[o.login]]
          /\ current' = IF o.gen = current[o.login]
                        THEN [current EXCEPT ![o.login] = @ + 1] ELSE current
    /\ UNCHANGED <<file, logins, last, selected, path, applied>>

\* _write_back: the new tokens are put into whatever the file holds now.
WrittenBack(f, o) == [f EXCEPT !.login = o.login, !.gen = o.gen]

\* The object that asked is the process's own, unless a reload replaced it.
Answered ==
    /\ flight # NoFlight
    /\ LET n == flight.name
           o == [flight.object EXCEPT !.gen = @ + 1]
       IN IF flight.good
          THEN /\ held' = IF held[n] = flight.object THEN [held EXCEPT ![n] = o] ELSE held
               /\ \/ file' = [file EXCEPT ![flight.path] = WrittenBack(@, o)] /\ UNCHANGED applied
                  \/ UNCHANGED file /\ applied' = applied \ {n}
          ELSE UNCHANGED <<file, held, applied>>
    /\ flight' = NoFlight
    /\ UNCHANGED <<logins, last, selected, cursor, path, current>>

\* The answer is lost: the old token stays, and the provider's is newer.
Unanswered == /\ flight # NoFlight /\ flight' = NoFlight
              /\ applied' = applied \ {flight.name}
              /\ UNCHANGED <<file, logins, last, selected, cursor, held, path, current>>

Next == \/ Reload \/ Restart \/ Serve \/ Refresh \/ Answered \/ Unanswered
        \/ \E n \in Names : Add(n) \/ Delete(n)
        \/ \E mode \in {Auto, Balanced} \cup Names : Select(mode)

Spec == Init /\ [][Next]_vars

TypeOK == /\ logins \in 0..MaxLogins /\ last \in [Names -> 0..MaxLogins]
          /\ selected \in {Auto, Balanced} \cup Names /\ cursor \in 0..Cardinality(Names)
          /\ current \in [Logins -> 0..MaxRefresh] /\ applied \subseteq Names

(* Once a change of an account was reloaded while no refresh was under way,  *)
(* it stays: a deleted account is gone, a replaced one keeps the tokens and  *)
(* the account id of its new login, and the newest token is in the file and *)
(* in whatever the process has loaded (CodexAuth._write_back rewrites a file *)
(* that was deleted or replaced under it).  Where an older release left its  *)
(* file, a deleted "default" is that login again, and its tokens are kept in *)
(* that file; and a file that could not be removed was not deleted.         *)
AppliedSticks == \A n \in applied :
    LET underWay == flight # NoFlight /\ flight.name = n IN
    /\ (Backed(n) = NoFile) <=> (Wanted(n) = 0)
    /\ Backed(n).id = Wanted(n) /\ Backed(n).login = Wanted(n)
    /\ Wanted(n) # 0 /\ ~underWay => Backed(n).gen = current[Wanted(n)]
    /\ Loaded(held[n]) => held[n] = Backed(n)
=============================================================================
