------------------------------ MODULE SparseMem ------------------------------
(***************************************************************************)
(* The memory of the C test client (testmain.c): a linked list of blocks,  *)
(* allocated when an address in them is written for the first time.  The   *)
(* list is a sequence, first_block its head.  A definition whose comment   *)
(* begins with "fault:" is a seeded fault; no action uses it.              *)
(***************************************************************************)
EXTENDS Naturals, Sequences

CONSTANTS
    BLOCK_SIZE,   \* BLOCK_MASK + 1, a power of two
    MaxAddr,      \* bound: addresses are 0 .. MaxAddr
    Value         \* the words that are written

ASSUME SparseAssumption ==
    /\ BLOCK_SIZE \in Nat \ {0} /\ MaxAddr \in Nat
    /\ Value \subseteq Nat /\ 0 \in Value

Addr == 0 .. MaxAddr

VARIABLES first_block, destination,
          op     \* the callback called last and its arguments
vars == <<first_block, destination, op>>

\* address & ~BLOCK_MASK and address & BLOCK_MASK
Mask(a) == a - (a % BLOCK_SIZE)
Offset(a) == a % BLOCK_SIZE

Block == [block_id : {Mask(a) : a \in Addr}, mem : [0 .. BLOCK_SIZE - 1 -> Value]]

\* The search both functions begin with: the blocks that match, and the first.
Matches(id) == {i \in DOMAIN first_block : first_block[i].block_id = id}
Current(id) == CHOOSE i \in Matches(id) : \A j \in Matches(id) : i <= j

\* calloc clears the new block; it goes to the front of the list.
\* fault: malloc instead of calloc
NewBlockUncleared(a, v) ==
    [block_id |-> Mask(a),
     mem |-> [o \in 0 .. BLOCK_SIZE - 1 |->
                IF o = Offset(a) THEN v ELSE MaxAddr + 100]]
NewBlock(a, v) ==
    [block_id |-> Mask(a),
     mem |-> [o \in 0 .. BLOCK_SIZE - 1 |-> IF o = Offset(a) THEN v ELSE 0]]

Init == first_block = <<>> /\ destination = 0 /\ op = <<"none">>

\* fault: a new block for every write
write_mem_no_search(a, v) ==
    /\ first_block' = <<NewBlock(a, v)>> \o first_block
    /\ Len(first_block) <= MaxAddr
    /\ op' = <<"write", a, v>> /\ UNCHANGED destination
write_mem(a, v) ==
    /\ first_block' =
         IF Matches(Mask(a)) # {}
           THEN [first_block EXCEPT ![Current(Mask(a))].mem[Offset(a)] = v]
           ELSE <<NewBlock(a, v)>> \o first_block
    /\ op' = <<"write", a, v>> /\ UNCHANGED destination

\* fault: *destination = 0 is missing
read_mem_unset(a) ==
    /\ destination' = IF Matches(Mask(a)) # {}
                        THEN first_block[Current(Mask(a))].mem[Offset(a)]
                        ELSE destination
    /\ op' = <<"read", a>> /\ UNCHANGED first_block
read_mem(a) ==
    /\ destination' = IF Matches(Mask(a)) # {}
                        THEN first_block[Current(Mask(a))].mem[Offset(a)]
                        ELSE 0
    /\ op' = <<"read", a>> /\ UNCHANGED first_block

Next == \E a \in Addr : read_mem(a) \/ \E v \in Value : write_mem(a, v)

Spec == Init /\ [][Next]_vars
-----------------------------------------------------------------------------
\* Type invariant of struct mem and struct block.
TypeOK ==
    /\ first_block \in Seq(Block) /\ destination \in Value
    /\ op \in {<<"none">>} \cup ({"read"} \X Addr) \cup ({"write"} \X Addr \X Value)

\* No two blocks of the list cover the same addresses: otherwise the search,
\* which stops at the first, would hide what the other one holds.
BlocksDisjoint ==
    \A i, j \in DOMAIN first_block :
        first_block[i].block_id = first_block[j].block_id => i = j

\* The words the list stands for.
Words == [a \in Addr |->
            IF Matches(Mask(a)) # {}
              THEN first_block[Current(Mask(a))].mem[Offset(a)] ELSE 0]

\* read_mem and write_mem of testmain.c behave like one flat memory: no call
\* is lost, and each has the effect on the words, or the result, it has there.
Flat == INSTANCE FlatMem WITH words <- Words
RefinesFlatMem == Flat!Spec
=============================================================================
