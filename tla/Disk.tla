--------------------------------- MODULE Disk ---------------------------------
(***************************************************************************)
(* The part of a file system that the durability of slip's files rests on: *)
(* directory entries as the kernel shows them and as a power failure       *)
(* leaves them.  A path is <<directory, name>>; a directory below another  *)
(* one is a path as well, whose name its own entries carry.                *)
(***************************************************************************)
EXTENDS Naturals, FiniteSets

CONSTANTS
  Nil,     \* no entry
  Torn,    \* a file with part of its content
  Paths

VARIABLE fs   \* mem: entries now.  disk: entries that survive.  soft: unsynced data

Roots == {p[1] : p \in Paths} \ {p[2] : p \in Paths}

\* Directory d is there in the entries m.
IsDir(m, d) == d \in Roots \/ \E p \in Paths : p[2] = d /\ m[p] # Nil

EmptyDir(m, d) == \A p \in Paths : p[1] = d => m[p] = Nil

\* mkdir, or a file created, written and synced.
Wrote(f, p, v) == [f EXCEPT !.mem[p] = v, !.soft = @ \ {p}]

\* A file written in place or without a sync of its data.
WroteSoft(f, p, v) == [f EXCEPT !.mem[p] = v, !.soft = @ \cup {p}]

Renamed(f, p, q) ==
  [f EXCEPT !.mem[q] = f.mem[p], !.mem[p] = Nil,
            !.soft = IF p \in f.soft THEN (@ \ {p}) \cup {q} ELSE @ \ {q}]

Unlinked(f, p) == [f EXCEPT !.mem[p] = Nil, !.soft = @ \ {p}]

\* fsync of directory d makes its entries durable.
Synced(f, d) ==
  [f EXCEPT !.disk = [p \in Paths |-> IF p[1] = d THEN f.mem[p] ELSE f.disk[p]]]

\* What is below a directory that is gone is gone.
Pruned(m) == [p \in Paths |-> IF IsDir(m, p[1]) THEN m[p] ELSE Nil]

\* A power failure: every change of an entry that was not synced reached the
\* disk or not, and unsynced data may be cut short.
AfterPowerLoss(f) ==
  {LET m == Pruned([p \in Paths |-> IF p \in cut THEN Torn
                                    ELSE IF p \in kept THEN f.mem[p] ELSE f.disk[p]])
   IN [mem |-> m, disk |-> m, soft |-> {}] :
     kept \in SUBSET {p \in Paths : f.mem[p] # f.disk[p]}, cut \in SUBSET f.soft}
=============================================================================
