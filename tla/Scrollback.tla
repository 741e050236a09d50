----------------------------- MODULE Scrollback -----------------------------
(***************************************************************************)
(* The scrollback ring of session.rs in bytes: append_scrollback, called   *)
(* by the PTY reader for every read, and replay_scrollback, called by      *)
(* every attach.  A step is one round of one of their loops.  Each call    *)
(* holds the ring's lock for as long as it runs, so there is one at a time. *)
(*                                                                         *)
(* Bytes are told apart by their position in the shell's output, so a      *)
(* chunk is the sequence of positions one read returned (never empty: an   *)
(* empty read ends the reader).                                            *)
(***************************************************************************)
EXTENDS Naturals, Sequences

CONSTANTS
  MaxRead,      \* bytes of one read (8192 in pty.rs)
  MaxPrinted,   \* bound on what the shell prints
  MaxLimit      \* bound on scrollback_bytes and scrollback_replay_bytes

ASSUME ScrollbackAssumption == MaxRead \in Nat /\ MaxPrinted \in Nat /\ MaxLimit \in Nat

VARIABLES
  limit,      \* scrollback_bytes
  replay,     \* scrollback_replay_bytes
  printed,    \* history: how many bytes were printed after each read
  ring,
  call,       \* the loop that runs, "idle", or "given": a replay was made
  round,      \* the chunks of the ring the loop has yet to look at
  total,      \* the loops' count of bytes, 0 between calls
  selected    \* the chunks to replay

ringVars == <<limit, replay, printed, ring, call, round, total, selected>>

RingInit ==
  /\ limit \in 0..MaxLimit
  /\ replay \in 0..MaxLimit
  /\ printed = <<>>
  /\ ring = <<>>
  /\ call = "idle" /\ round = 0 /\ total = 0
  /\ selected = <<>>

\* Bytes printed when the k-th read was done, and what that read returned.
PrintedBy(k) == IF k = 0 THEN 0 ELSE printed[k]
Chunk(k) == [i \in 1..(PrintedBy(k) - PrintedBy(k - 1)) |-> PrintedBy(k - 1) + i]

Unchanged == UNCHANGED <<limit, replay, printed>>
-----------------------------------------------------------------------------
(* append_scrollback: push at the back, take the sum of the lengths, then   *)
(* pop at the front while it is too long.                                   *)

\* One read of the PTY.
ReadPty ==
  /\ call = "idle"
  /\ \E n \in 1..MaxRead :
       LET before == PrintedBy(Len(printed))
       IN  /\ before + n <= MaxPrinted
           /\ printed' = Append(printed, before + n)
           /\ ring' = Append(ring, [i \in 1..n |-> before + i])
  /\ call' = "sum"
  /\ round' = Len(ring')
  /\ UNCHANGED <<limit, replay, total, selected>>

SumUp ==
  /\ call = "sum"
  /\ IF round > 0
       THEN /\ total' = total + Len(ring[round])
            /\ round' = round - 1
            /\ UNCHANGED call
       ELSE call' = "drop" /\ UNCHANGED <<total, round>>
  /\ UNCHANGED <<ring, selected>> /\ Unchanged

\* Variant for testing: the limit itself does not fit.
DropOldestAtLimit ==
  /\ call = "drop"
  /\ IF total >= limit /\ ring # <<>>
       THEN /\ ring' = Tail(ring)
            /\ total' = total - Len(Head(ring))
            /\ UNCHANGED call
       ELSE call' = "idle" /\ total' = 0 /\ UNCHANGED ring
  /\ UNCHANGED <<round, selected>> /\ Unchanged

DropOldest ==
  /\ call = "drop"
  /\ IF total > limit /\ ring # <<>>
       THEN /\ ring' = Tail(ring)
            /\ total' = total - Len(Head(ring))
            /\ UNCHANGED call
       ELSE call' = "idle" /\ total' = 0 /\ UNCHANGED ring
  /\ UNCHANGED <<round, selected>> /\ Unchanged
-----------------------------------------------------------------------------
(* replay_scrollback: from the newest chunk on, until there is enough. *)

\* An attach.  No limit means no replay.
ReplayScrollback ==
  /\ call = "idle"
  /\ IF replay = 0 THEN call' = "given" /\ UNCHANGED round
                   ELSE call' = "select" /\ round' = Len(ring)
  /\ UNCHANGED <<ring, total, selected>> /\ Unchanged

\* Variant for testing: the wrong end of a chunk that is cut.
Oldest(chunk, n) == SubSeq(chunk, 1, n)

\* The newest n bytes of a chunk: chunk[chunk.len() - n..].
Newest(chunk, n) == SubSeq(chunk, Len(chunk) - n + 1, Len(chunk))

Select ==
  /\ call = "select"
  /\ IF round > 0 /\ total < replay
       THEN LET chunk == ring[round]
                remaining == replay - total
            IN  /\ IF Len(chunk) <= remaining
                     THEN /\ selected' = <<chunk>> \o selected
                          /\ total' = total + Len(chunk)
                     ELSE /\ selected' = <<Newest(chunk, remaining)>> \o selected
                          /\ total' = replay
                /\ round' = round - 1
                /\ UNCHANGED call
       ELSE call' = "given" /\ UNCHANGED <<round, total, selected>>
  /\ UNCHANGED ring /\ Unchanged

\* The lock is given back, and the replay goes to the client.
Give ==
  /\ call = "given"
  /\ call' = "idle" /\ round' = 0 /\ total' = 0 /\ selected' = <<>>
  /\ UNCHANGED ring /\ Unchanged

RingNext == ReadPty \/ SumUp \/ DropOldest \/ ReplayScrollback \/ Select \/ Give

RingSpec == RingInit /\ [][RingNext]_ringVars
-----------------------------------------------------------------------------
(* Properties *)

\* The chunks hold the bytes after the first a, up to b, in the order they were
\* printed, and no others.
Hold(chunks, a, b) ==
  LET n == Len(chunks)
  IN  /\ n = 0 => a = b
      /\ \A i \in 1..n : chunks[i] # <<>>
      /\ n > 0 => chunks[1][1] = a + 1 /\ chunks[n][Len(chunks[n])] = b
      /\ \A i \in 1..n : \A j \in 1..Len(chunks[i]) : chunks[i][j] = chunks[i][1] + j - 1
      /\ \A i \in 2..n : chunks[i][1] = chunks[i - 1][Len(chunks[i - 1])] + 1

\* What was printed before the chunks of the ring, and in all.
Before == PrintedBy(Len(printed) - Len(ring))
Printed == PrintedBy(Len(printed))

\* Once an append is done the ring is the longest run of the newest reads that
\* fits scrollback_bytes: whole chunks, none missing in between, and the next
\* older one would not fit.  (A read longer than the limit empties the ring.)
RingIsNewest ==
  LET kept == Len(ring)
      n == Len(printed)
  IN  call \in {"idle", "select", "given"} =>
        /\ kept <= n
        /\ \A i \in 1..kept : ring[i] = Chunk(n - kept + i)
        /\ Printed - Before <= limit
        /\ kept < n => Printed - PrintedBy(n - kept - 1) > limit

\* A replay is the newest bytes of the ring, exactly as many as were asked for
\* or as there are, in the order they were printed.
ReplayIsNewest ==
  call = "given" =>
    LET have == Printed - Before
        wanted == IF replay < have THEN replay ELSE have
    IN  Hold(selected, Printed - wanted, Printed)
=============================================================================
