------------------------------- MODULE Config -------------------------------
(***************************************************************************)
(* internal/config: loadDotEnv adds the lines of .env to the environment,  *)
(* Load reads six variables from it and validates them.                    *)
(*                                                                         *)
(* A variable's text is a raw value: a number, or a text that is none.  A  *)
(* time.Duration counts nanoseconds in an int64; the largest int and the   *)
(* number of nanoseconds in a second are constants, so that what overflows *)
(* in Go overflows here.                                                   *)
(***************************************************************************)
EXTENDS Integers, Sequences

CONSTANTS
  Files,         \* the .env files there may be, as sequences of lines
  Environments,  \* the environments the process may be started in
  MaxInt,        \* the largest int; -MaxInt - 1 is the smallest
  Second         \* nanoseconds in a second

Integer(n) == [kind |-> "integer", n |-> n]
Text       == [kind |-> "text", n |-> 0]   \* not an integer, or out of range
Empty      == [kind |-> "empty", n |-> 0]
Unset      == [kind |-> "unset", n |-> 0]  \* LookupEnv says no

Raws == [kind : {"integer", "text", "empty"}, n : Int]

IntKeys == {"PORT", "MAX_WORKERS", "CHECK_INTERVAL_SECONDS", "CHECK_TIMEOUT_SECONDS", "DOMAIN_RPS"}
Keys    == IntKeys \union {"DATABASE_URL"}

\* A line assigns a raw value to a key, is skipped (a comment, no "="), or is
\* longer than the scanner's buffer.
Lines   == [key : Keys, raw : Raws] \union [key : {"skipped", "too long"}, raw : {Empty}]
TooLong == [key |-> "too long", raw |-> Empty]

\* What an instance has to give these constants.
ConfigAssumption ==
  /\ MaxInt \in Nat \ {0}
  /\ Second \in 1..MaxInt
  /\ \A f \in Files : f \in Seq(Lines)
  /\ \A e \in Environments : e \in [Keys -> Raws \union {Unset}]

VARIABLES
  environment,  \* the environment at the start
  file,         \* the lines of .env
  line,         \* the line Scan returns next
  env,          \* the environment as Setenv has changed it
  stage,        \* "dotenv", "read", "loaded" or "rejected", then "used"
  cfg           \* what Load returns

vars == <<environment, file, line, env, stage, cfg>>

NoConfig == [port |-> 0, maxWorkers |-> 0, checkInterval |-> 0,
             checkTimeout |-> 0, domainRPS |-> 0]

Init ==
  /\ environment \in Environments
  /\ file \in Files
  /\ line = 1
  /\ env = environment
  /\ stage = "dotenv"
  /\ cfg = NoConfig

-----------------------------------------------------------------------------
\* Fault: a line of the file replaces what the environment says.
ReadLine_Overrides ==
  /\ stage = "dotenv"
  /\ line <= Len(file)
  /\ file[line] # TooLong
  /\ line' = line + 1
  /\ env' = [k \in Keys |-> IF file[line].key = k THEN file[line].raw ELSE env[k]]
  /\ UNCHANGED <<environment, file, stage, cfg>>

\* A line sets a variable only if the environment does not have it, and an
\* earlier line counts as having it.
ReadLine ==
  /\ stage = "dotenv"
  /\ line <= Len(file)
  /\ file[line] # TooLong
  /\ line' = line + 1
  /\ env' = [k \in Keys |-> IF file[line].key = k /\ env[k] = Unset THEN file[line].raw ELSE env[k]]
  /\ UNCHANGED <<environment, file, stage, cfg>>

\* Scan returns false, and Load ignores why: there is no file, no further
\* line, or the line does not fit.
EndOfFile ==
  /\ stage = "dotenv"
  /\ line <= Len(file) => file[line] = TooLong
  /\ stage' = "read"
  /\ UNCHANGED <<environment, file, line, env, cfg>>

-----------------------------------------------------------------------------
\* The product of two ints, as the machine computes it.
Wrap(n) == ((n + MaxInt + 1) % (2 * MaxInt + 2)) - (MaxInt + 1)

\* intEnv and secondsEnv: what is missing or empty is the default.
IntEnv(key, def) == IF env[key].kind = "integer" THEN env[key].n ELSE def
SecondsEnv(key, def) == Wrap(IntEnv(key, def) * Second)

Parsed ==
  [port          |-> IntEnv("PORT", 8080),
   maxWorkers    |-> IntEnv("MAX_WORKERS", 64),
   checkInterval |-> SecondsEnv("CHECK_INTERVAL_SECONDS", 30),
   checkTimeout  |-> SecondsEnv("CHECK_TIMEOUT_SECONDS", 10),
   domainRPS     |-> IntEnv("DOMAIN_RPS", 5)]

Validate(c) ==
  /\ env["DATABASE_URL"].kind \notin {"unset", "empty"}
  /\ 1 <= c.port /\ c.port <= 65535
  /\ c.maxWorkers >= 1
  /\ c.checkInterval > 0
  /\ c.checkTimeout > 0
  /\ c.domainRPS >= 1

Accept ==
  /\ stage = "read"
  /\ \A k \in IntKeys : env[k].kind # "text"
  /\ Validate(Parsed)
  /\ stage' = "loaded"
  /\ cfg' = Parsed
  /\ UNCHANGED <<environment, file, line, env>>

Reject ==
  /\ stage = "read"
  /\ \/ \E k \in IntKeys : env[k].kind = "text"
     \/ ~Validate(Parsed)
  /\ stage' = "rejected"
  /\ UNCHANGED <<environment, file, line, env, cfg>>

\* The caller of Load goes on; nobody reads the environment again.
Use ==
  /\ stage = "loaded"
  /\ stage' = "used"
  /\ environment' = [k \in Keys |-> Empty]
  /\ env' = environment'
  /\ file' = <<>>
  /\ line' = 1
  /\ cfg' = NoConfig

Load == ReadLine \/ EndOfFile \/ Accept \/ Reject

Spec == Init /\ [][Load \/ Use]_vars

-----------------------------------------------------------------------------
TypeOK ==
  /\ environment \in [Keys -> Raws \union {Unset}]
  /\ file \in Seq(Lines)
  /\ line \in 1..Len(file) + 1
  /\ env \in [Keys -> Raws \union {Unset}]
  /\ stage \in {"dotenv", "read", "loaded", "rejected", "used"}
  /\ cfg \in [DOMAIN NoConfig -> Int]

\* The lines that have assigned to k when Scan is at n.
LinesOf(k, n) == {i \in 1..n - 1 : file[i].key = k}

\* Who decides about a variable: the environment if it has it, even as an
\* empty text, which then means the default and not what the file says; else
\* the first of the lines read that assigns to it; else nobody.
Decided(k) ==
  \/ environment[k] # Unset /\ env[k] = environment[k]
  \/ /\ environment[k] = Unset
     /\ \E i \in LinesOf(k, line) :
          /\ \A j \in LinesOf(k, line) : i <= j
          /\ env[k] = file[i].raw
  \/ environment[k] = Unset /\ LinesOf(k, line) = {} /\ env[k] = Unset

Precedence == \A k \in Keys : Decided(k)

\* "validate checks if the loaded configuration meets the application's
\* requirements": an accepted interval or timeout is the number of seconds that
\* is written, and the ticker of a bucket has a positive interval, without
\* which time.NewTicker panics.
AcceptedIsUsable ==
  stage = "loaded" =>
    /\ cfg.checkInterval = IntEnv("CHECK_INTERVAL_SECONDS", 30) * Second
    /\ cfg.checkTimeout = IntEnv("CHECK_TIMEOUT_SECONDS", 10) * Second
    /\ Second \div cfg.domainRPS > 0
=============================================================================
