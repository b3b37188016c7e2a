------------------------------ MODULE MCCfdisk ------------------------------
(* cfdisk on two small disks: in a behaviour it writes the DOS label of the *)
(* one or the GPT of the other.                                            *)
EXTENDS DosPartitions, GptDisk, Sequences

CONSTANTS s1, s2, t1, t2, linux, swap, ext, none

VARIABLE label  \* "dos" or "gpt": the disk of this behaviour

Part(start, size, kind) == [start |-> start, size |-> size, kind |-> kind, boot |-> FALSE]

\* A disk with these primary partitions and boot records.
Disk(parts, records) ==
    [l \in LBA |-> IF l = 0 THEN [i \in Slot |-> IF i <= Len(parts) THEN parts[i] ELSE NoPartition]
                   ELSE IF l \in DOMAIN records THEN records[l] ELSE NoRecord]

EmptyDisk == Disk(<<>>, [l \in {} |-> NoRecord])

\* An extended partition with two logical ones in it.
FullChain ==
    Disk(<<Part(1, 5, ext)>>,
         [l \in {1, 3} |->
            IF l = 1 THEN [partition |-> Part(1, 1, linux), link |-> 2]
            ELSE [partition |-> Part(1, 1, linux), link |-> 0]])

\* One that another program packed: no aligned sector fits into it.
PackedChain ==
    Disk(<<Part(2, 2, ext)>>, [l \in {2} |-> [partition |-> Part(1, 1, linux), link |-> 0]])

\* One with more boot records than are read.
LongChain ==
    Disk(<<Part(1, 5, ext)>>,
         [l \in {1, 3, 5} |-> [partition |-> IF l = 5 THEN NoPartition ELSE Part(1, 1, linux),
                              link |-> IF l = 5 THEN 0 ELSE l + 1]])

AllDisks == {EmptyDisk, FullChain, PackedChain, LongChain}

DosIdle == Init /\ disk = EmptyDisk /\ trouble = "power"
GptIdle == GptInit /\ shown = Blank /\ threat = "power"

CfdiskInit ==
    \/ label = "dos" /\ Init /\ GptIdle
    \/ label = "gpt" /\ DosIdle /\ GptInit
CfdiskNext ==
    \/ label = "dos" /\ Next /\ UNCHANGED <<gptVars, label>>
    \/ label = "gpt" /\ GptNext /\ UNCHANGED <<vars, label>>
CfdiskSpec == CfdiskInit /\ [][CfdiskNext]_<<vars, gptVars, label>>
=============================================================================
