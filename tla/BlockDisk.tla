----------------------------- MODULE BlockDisk -----------------------------
(***************************************************************************)
(* What the "usb" command promises the host: the SD card as a disk that     *)
(* serves one request at a time.  A passed request did exactly what it      *)
(* asked for, a failed or abandoned write stored only blocks and values the *)
(* request named, and nothing else ever changes the card.                   *)
(***************************************************************************)
EXTENDS Integers, Sequences

CONSTANTS
  Request,  \* records with op, lba, cnt and val
  Blocks, Data, NULL,
  Faulty    \* may the card itself fail?

VARIABLES
  disk,  \* the contents of the card
  req,   \* the request being served, or NULL
  ans    \* the answer to the last request

bdVars == <<disk, req, ans>>

Range(r) == r.lba .. r.lba + r.cnt - 1
InRange(r) == Range(r) \subseteq Blocks
Moves(r) == r.op \in {"READ10", "WRITE10"}

BDInit ==
  /\ disk \in [Blocks -> Data]
  /\ req = NULL
  /\ ans = NULL

Ask ==
  /\ req = NULL
  /\ req' \in Request
  /\ UNCHANGED <<disk, ans>>

Store ==
  /\ req # NULL
  /\ req.op = "WRITE10" /\ InRange(req)
  /\ \E written \in SUBSET Range(req) :
       disk' = [b \in Blocks |-> IF b \in written THEN req.val ELSE disk[b]]
  /\ UNCHANGED <<req, ans>>

Pass ==
  /\ req # NULL
  /\ req.op # "UNKNOWN"
  /\ Moves(req) => InRange(req)
  /\ req.op = "WRITE10" => \A b \in Range(req) : disk[b] = req.val
  /\ ans' = [status |-> "PASS",
             data |-> IF req.op = "READ10"
                      THEN [i \in 1 .. req.cnt |-> disk[req.lba + i - 1]] ELSE <<>>]
  /\ req' = NULL
  /\ UNCHANGED disk

Fail ==
  /\ req # NULL
  /\ \/ req.op = "UNKNOWN"
     \/ Moves(req) /\ ~InRange(req)
     \/ Moves(req) /\ Faulty
  /\ ans' = [status |-> "FAIL", data |-> <<>>]
  /\ req' = NULL
  /\ UNCHANGED disk

\* A reset of the bus forgets the request and the last answer.
Abandon ==
  /\ req' = NULL
  /\ ans' = NULL
  /\ UNCHANGED disk

BDNext == Ask \/ Store \/ Pass \/ Fail \/ Abandon

BDSpec == BDInit /\ [][BDNext]_bdVars
=============================================================================
