------------------------------ MODULE Session ------------------------------
(***************************************************************************)
(* The wallet process and its seed file: starting, unlocking, connecting   *)
(* to the database, and the `seed recover` command of the CLI, which is    *)
(* five calls of the owner API in a row.  What these calls do to the       *)
(* database is in Recovery, which extends this module.                     *)
(*                                                                         *)
(* Abstractions.  A seed stands for its mnemonic and all keys derived from *)
(* it.  Encryption is perfect: a seed file opens with its own password.    *)
(***************************************************************************)
EXTENDS Naturals

CONSTANTS
    Seeds, Passwords, NoSeed, NoPassword,
    MaxSeedFiles    \* bound: seed files written

ASSUME SessionAssumption ==
    NoSeed \notin Seeds /\ NoPassword \notin Passwords /\ MaxSeedFiles \in Nat

VARIABLES
    seedFile,   \* wallet.seed
    password,   \* Backend::password
    connected,  \* Backend::db is open
    cli,        \* where the command line is, and the seed it is writing
    written     \* seed files written so far

session == <<seedFile, password, connected, cli, written>>

-----------------------------------------------------------------------------
Places == {"off", "ready", "write_new", "connect_new",
           "write", "connect", "clear", "restore"}

SeedFile == [form : {"none", "torn", "sealed"},
             seed : Seeds \cup {NoSeed}, pw : Passwords \cup {NoPassword}]
NoFile == [form |-> "none", seed |-> NoSeed, pw |-> NoPassword]
TornFile == [form |-> "torn", seed |-> NoSeed, pw |-> NoPassword]

Off == [at |-> "off", seed |-> NoSeed, loop |-> FALSE]
Ready == [at |-> "ready", seed |-> NoSeed, loop |-> TRUE]

SessionTypeOK ==
    /\ seedFile \in SeedFile
    /\ password \in Passwords \cup {NoPassword}
    /\ connected \in BOOLEAN
    /\ cli \in [at : Places, seed : Seeds \cup {NoSeed}, loop : BOOLEAN]
    /\ written \in 0 .. MaxSeedFiles

SessionInit ==
    /\ seedFile = NoFile
    /\ password = NoPassword
    /\ connected = FALSE
    /\ cli = Off
    /\ written = 0

HasSeed == seedFile.form # "none"
Decrypts(p) == seedFile.form = "sealed" /\ seedFile.pw = p

\* open_and_close: the call goes on if there is a database and the password the
\* backend remembers opens the seed file.
CanOpen == cli.at = "ready" /\ connected /\ Decrypts(password)

-----------------------------------------------------------------------------
\* set_password checks before it assigns; then connect.
Start(p) ==
    /\ cli.at = "off" /\ HasSeed
    /\ Decrypts(p)
    /\ password' = p
    /\ connected' = TRUE
    /\ cli' = Ready
    /\ UNCHANGED <<seedFile, written>>

\* A wrong password, or a seed file that a crash left half-written: the process
\* ends.  Nothing in the program removes a torn file.
StartRefused(p) ==
    /\ cli.at = "off" /\ HasSeed
    /\ ~Decrypts(p)
    /\ UNCHANGED session

\* set_seed: the password is assigned before anything can fail, and creating
\* the file truncates the one that is there.
SetSeed(s, p, next) ==
    /\ written < MaxSeedFiles /\ written' = written + 1
    /\ password' = p
    /\ seedFile' = TornFile
    /\ cli' = [cli EXCEPT !.at = next, !.seed = s]

\* The options of the prompt a wallet without seed starts with: init, recover.
InitWallet(s, p) ==
    cli.at = "off" /\ ~HasSeed /\ SetSeed(s, p, "write_new") /\ UNCHANGED connected

RecoverAtStart(s, p) ==
    cli.at = "off" /\ ~HasSeed /\ SetSeed(s, p, "write") /\ UNCHANGED connected

\* Mutant: the backend stays connected to the database of the old seed.
SeedRecoverConnected(s, p) ==
    cli.at = "ready" /\ SetSeed(s, p, "write") /\ UNCHANGED connected

\* The command: disconnect, ask for phrase and password, overwrite the seed.
SeedRecover(s, p) ==
    cli.at = "ready" /\ SetSeed(s, p, "write") /\ connected' = FALSE

\* The phrase is refused: the new password is set, the file is as it was, and
\* nothing connects again before the next start.
PhraseRefused(p) ==
    /\ cli.at = "ready"
    /\ password' = p
    /\ connected' = FALSE
    /\ UNCHANGED <<seedFile, cli, written>>

WriteSeed ==
    /\ cli.at \in {"write_new", "write"}
    /\ seedFile' = [form |-> "sealed", seed |-> cli.seed, pw |-> password]
    /\ cli' = [cli EXCEPT !.at = IF @ = "write" THEN "connect" ELSE "connect_new"]
    /\ UNCHANGED <<password, connected, written>>

Connect ==
    /\ cli.at \in {"connect_new", "connect"}
    /\ ~connected
    /\ connected' = TRUE
    /\ cli' = IF cli.at = "connect" THEN [cli EXCEPT !.at = "clear"] ELSE Ready
    /\ UNCHANGED <<seedFile, password, written>>

\* A call of the command fails and the prompt of the loop comes back.  (At the
\* start of the process there is no loop yet: it ends, as in SessionLost.)
GiveUp ==
    /\ cli.at \in {"write", "connect", "clear", "restore"} /\ cli.loop
    /\ cli' = Ready
    /\ connected' = (connected /\ cli.at # "clear")
    /\ UNCHANGED <<seedFile, password, written>>

\* The process ends, in order or not; only the files remain.
SessionLost ==
    /\ cli' = Off
    /\ password' = NoPassword
    /\ connected' = FALSE
    /\ UNCHANGED <<seedFile, written>>
=============================================================================
