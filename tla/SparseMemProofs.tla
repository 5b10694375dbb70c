--------------------------- MODULE SparseMemProofs ---------------------------
(***************************************************************************)
(* The block list of testmain.c, for every block size, every address range *)
(* and every number of blocks: no two blocks overlap, and the list behaves *)
(* like one flat memory.                                                   *)
(***************************************************************************)
EXTENDS SparseMem, TLAPS

\* address & ~BLOCK_MASK and address & BLOCK_MASK determine the address.
LEMMA MaskOffset ==
    /\ \A a \in Addr : Offset(a) \in 0 .. BLOCK_SIZE - 1
    /\ \A a, b \in Addr : Mask(a) = Mask(b) /\ Offset(a) = Offset(b) => a = b
  BY SparseAssumption DEF Addr, Mask, Offset

\* The search in any list: the indices of the blocks that match, and the word
\* that the first of them holds.
Found(list, id) == {i \in DOMAIN list : list[i].block_id = id}
WordOf(list, a) ==
    LET M == Found(list, Mask(a))
    IN  IF M # {} THEN list[CHOOSE i \in M : \A j \in M : i <= j].mem[Offset(a)]
                  ELSE 0
Disjoint(list) ==
    \A i, j \in DOMAIN list : list[i].block_id = list[j].block_id => i = j

LEMMA WordsAre == Words = [a \in Addr |-> WordOf(first_block, a)]
  BY DEF Words, WordOf, Found, Matches, Current

\* In a list without overlaps the search finds the only block there is.
LEMMA Lookup ==
    ASSUME NEW list \in Seq(Block), Disjoint(list), NEW a \in Addr
    PROVE  /\ \A i \in DOMAIN list :
                list[i].block_id = Mask(a) => WordOf(list, a) = list[i].mem[Offset(a)]
           /\ Found(list, Mask(a)) = {} => WordOf(list, a) = 0
<1> DEFINE M == Found(list, Mask(a))
<1>1. M = {} => WordOf(list, a) = 0
  BY DEF WordOf
<1>2. ASSUME NEW i \in DOMAIN list, list[i].block_id = Mask(a)
      PROVE  WordOf(list, a) = list[i].mem[Offset(a)]
  <2>1. M = {i} /\ i <= i
    BY <1>2 DEF Found, Disjoint
  <2>2. (CHOOSE k \in M : \A j \in M : k <= j) = i
    BY <2>1
  <2>3. QED
    BY <2>1, <2>2 DEF WordOf
<1>3. QED
  BY <1>1, <1>2

LEMMA CurrentFound ==
    ASSUME TypeOK, BlocksDisjoint, NEW id, Matches(id) # {}
    PROVE  Current(id) \in DOMAIN first_block /\ first_block[Current(id)].block_id = id
<1>1. PICK i \in Matches(id) : TRUE
  OBVIOUS
<1>2. Matches(id) = {i} /\ i <= i
  BY <1>1 DEF Matches, BlocksDisjoint, TypeOK
<1>3. Current(id) = i
  BY <1>2 DEF Current
<1>4. QED
  BY <1>1, <1>3 DEF Matches
-----------------------------------------------------------------------------
(* What write_mem does to the list.                                        *)

Overwritten(list, c, a, v) == [list EXCEPT ![c].mem[Offset(a)] = v]
Prepended(list, a, v) == <<NewBlock(a, v)>> \o list

\* A block that exists: one word of it changes.
LEMMA WriteOld ==
    ASSUME NEW list \in Seq(Block), Disjoint(list), NEW a \in Addr, NEW v \in Value,
           NEW c \in DOMAIN list, list[c].block_id = Mask(a),
           NEW new, new = Overwritten(list, c, a, v)
    PROVE  /\ new \in Seq(Block) /\ Disjoint(new)
           /\ \A b \in Addr : WordOf(new, b) = IF b = a THEN v ELSE WordOf(list, b)
<1> DEFINE blk == [list[c] EXCEPT !.mem = [list[c].mem EXCEPT ![Offset(a)] = v]]
<1>1. list[c] \in Block
  OBVIOUS
<1>2. blk \in Block /\ blk.block_id = list[c].block_id
      /\ blk.mem = [list[c].mem EXCEPT ![Offset(a)] = v]
  BY <1>1, MaskOffset DEF Block
<1>3. new = [list EXCEPT ![c] = blk]
  BY <1>1 DEF Block, Overwritten
<1> HIDE DEF blk
<1>4. /\ new \in Seq(Block) /\ DOMAIN new = DOMAIN list /\ new[c] = blk
      /\ \A i \in DOMAIN list : i # c => new[i] = list[i]
  BY <1>2, <1>3
<1>5. \A i \in DOMAIN list : new[i].block_id = list[i].block_id
  BY <1>2, <1>4
<1>6. Disjoint(new)
  BY <1>4, <1>5 DEF Disjoint
<1>7. ASSUME NEW b \in Addr
      PROVE  WordOf(new, b) = IF b = a THEN v ELSE WordOf(list, b)
  <2>1. CASE Found(list, Mask(b)) = {}
    <3>1. Found(new, Mask(b)) = {}
      BY <1>4, <1>5, <2>1 DEF Found
    <3>2. b # a
      BY <2>1 DEF Found
    <3>3. QED
      BY <1>4, <1>6, <2>1, <3>1, <3>2, Lookup
  <2>2. CASE Found(list, Mask(b)) # {}
    <3>1. PICK i \in DOMAIN list : list[i].block_id = Mask(b)
      BY <2>2 DEF Found
    <3>2. WordOf(list, b) = list[i].mem[Offset(b)]
      BY <3>1, Lookup
    <3>3. WordOf(new, b) = new[i].mem[Offset(b)]
      <4>1. i \in DOMAIN new /\ new[i].block_id = Mask(b) /\ new \in Seq(Block)
        BY <1>4, <1>5, <3>1
      <4>2. QED
        BY <1>6, <4>1, Lookup
    <3>4. CASE i = c
      <4>1. list[c].mem \in [0 .. BLOCK_SIZE - 1 -> Value]
        BY <1>1 DEF Block
      <4>2. new[i].mem = [list[c].mem EXCEPT ![Offset(a)] = v]
        BY <1>2, <1>4, <3>4
      <4>3. Offset(b) \in 0 .. BLOCK_SIZE - 1
        BY MaskOffset
      <4>4. new[i].mem[Offset(b)]
              = IF Offset(b) = Offset(a) THEN v ELSE list[i].mem[Offset(b)]
        BY <3>4, <4>1, <4>2, <4>3
      <4>5. Offset(b) = Offset(a) <=> b = a
        BY <3>1, <3>4, MaskOffset
      <4>6. QED
        BY <3>2, <3>3, <4>4, <4>5
    <3>5. CASE i # c
      <4>1. b # a
        BY <3>1, <3>5 DEF Disjoint
      <4>2. QED
        BY <1>4, <3>2, <3>3, <3>5, <4>1
    <3>6. QED
      BY <3>4, <3>5
  <2>3. QED
    BY <2>1, <2>2
<1>8. QED
  BY <1>4, <1>6, <1>7

\* A block that does not exist: a new one, cleared but for one word.
LEMMA WriteNew ==
    ASSUME NEW list \in Seq(Block), Disjoint(list), NEW a \in Addr, NEW v \in Value,
           Found(list, Mask(a)) = {},
           NEW new, new = Prepended(list, a, v)
    PROVE  /\ new \in Seq(Block) /\ Disjoint(new)
           /\ \A b \in Addr : WordOf(new, b) = IF b = a THEN v ELSE WordOf(list, b)
<1> DEFINE blk == NewBlock(a, v)
<1>1. /\ blk \in Block /\ blk.block_id = Mask(a)
      /\ \A o \in 0 .. BLOCK_SIZE - 1 : blk.mem[o] = IF o = Offset(a) THEN v ELSE 0
  BY SparseAssumption DEF NewBlock, Block
<1> HIDE DEF blk
<1>2. /\ new \in Seq(Block) /\ Len(new) = Len(list) + 1 /\ new[1] = blk
      /\ \A i \in DOMAIN list : i + 1 \in DOMAIN new /\ new[i + 1] = list[i]
      /\ \A j \in DOMAIN new :
           j # 1 => j - 1 \in DOMAIN list /\ new[j] = list[j - 1]
  <2>1. new = <<blk>> \o list /\ <<blk>> \in Seq(Block) /\ Len(<<blk>>) = 1
        /\ <<blk>>[1] = blk
    BY <1>1 DEF blk, Prepended
  <2>2. new \in Seq(Block) /\ Len(new) = Len(list) + 1
    BY <2>1
  <2>3. \A i \in 1 .. Len(list) + 1 :
          new[i] = IF i <= 1 THEN <<blk>>[i] ELSE list[i - 1]
    BY <2>1
  <2>4. DOMAIN new = 1 .. Len(list) + 1 /\ DOMAIN list = 1 .. Len(list)
        /\ Len(list) \in Nat
    BY <2>2
  <2>5. new[1] = blk
    BY <2>1, <2>3, <2>4
  <2>6. ASSUME NEW i \in DOMAIN list PROVE i + 1 \in DOMAIN new /\ new[i + 1] = list[i]
    <3>1. /\ i + 1 \in 1 .. (Len(list) + 1) /\ ~(i + 1 <= 1)
          /\ (i + 1) - 1 = i
      BY <2>4
    <3>2. QED
      BY <2>3, <2>4, <3>1
  <2>7. ASSUME NEW j \in DOMAIN new, j # 1
        PROVE  j - 1 \in DOMAIN list /\ new[j] = list[j - 1]
    <3>1. j \in 1 .. Len(list) + 1 /\ ~(j <= 1) /\ j - 1 \in 1 .. Len(list)
      BY <2>4, <2>7
    <3>2. QED
      BY <2>3, <2>4, <3>1
  <2>8. QED
    BY <2>2, <2>5, <2>6, <2>7, Zenon
<1>3. Disjoint(new)
  <2> SUFFICES ASSUME NEW i \in DOMAIN new, NEW j \in DOMAIN new,
                      new[i].block_id = new[j].block_id
               PROVE  i = j
    BY DEF Disjoint
  <2>1. \A k \in DOMAIN list : list[k].block_id # Mask(a)
    BY DEF Found
  <2>2. CASE i = 1 \/ j = 1
    BY <1>1, <1>2, <2>1, <2>2
  <2>3. CASE i # 1 /\ j # 1
    <3>1. i - 1 \in DOMAIN list /\ j - 1 \in DOMAIN list
          /\ list[i - 1].block_id = list[j - 1].block_id
      BY <1>2, <2>3
    <3>2. i - 1 = j - 1
      BY <3>1 DEF Disjoint
    <3>3. i \in Nat /\ j \in Nat
      BY <1>2
    <3>4. QED
      BY <3>2, <3>3
  <2>4. QED
    BY <2>2, <2>3
<1>4. ASSUME NEW b \in Addr
      PROVE  WordOf(new, b) = IF b = a THEN v ELSE WordOf(list, b)
  <2>1. CASE Mask(b) = Mask(a)
    <3>1. WordOf(new, b) = blk.mem[Offset(b)]
      <4>1. 1 \in DOMAIN new /\ new[1].block_id = Mask(b) /\ new \in Seq(Block)
        BY <1>1, <1>2, <2>1
      <4>2. QED
        BY <1>2, <1>3, <4>1, Lookup
    <3>2. WordOf(list, b) = 0
      BY <2>1, Lookup
    <3>3. Offset(b) = Offset(a) <=> b = a
      BY <2>1, MaskOffset
    <3>4. QED
      BY <1>1, <3>1, <3>2, <3>3, MaskOffset
  <2>2. CASE Mask(b) # Mask(a)
    <3>1. CASE Found(list, Mask(b)) = {}
      <4>1. Found(new, Mask(b)) = {}
        BY <1>1, <1>2, <2>2, <3>1 DEF Found
      <4>2. QED
        BY <1>2, <1>3, <2>2, <3>1, <4>1, Lookup
    <3>2. CASE Found(list, Mask(b)) # {}
      <4>1. PICK i \in DOMAIN list : list[i].block_id = Mask(b)
        BY <3>2 DEF Found
      <4>2. WordOf(list, b) = list[i].mem[Offset(b)]
        BY <4>1, Lookup
      <4>3. WordOf(new, b) = new[i + 1].mem[Offset(b)]
        <5>1. /\ i + 1 \in DOMAIN new /\ new[i + 1].block_id = Mask(b)
              /\ new \in Seq(Block)
          BY <1>2, <4>1
        <5>2. QED
          BY <1>3, <5>1, Lookup
      <4>4. QED
        BY <1>2, <2>2, <4>2, <4>3
    <3>3. QED
      BY <3>1, <3>2
  <2>3. QED
    BY <2>1, <2>2
<1>5. QED
  BY <1>2, <1>3, <1>4

\* write_mem, whichever of the two it does.
LEMMA WriteStep ==
    ASSUME TypeOK, BlocksDisjoint, NEW a \in Addr, NEW v \in Value, write_mem(a, v)
    PROVE  TypeOK' /\ BlocksDisjoint' /\ Flat!Write(a, v)
<1>1. /\ first_block \in Seq(Block) /\ Disjoint(first_block)
      /\ Found(first_block, Mask(a)) = Matches(Mask(a))
  BY DEF TypeOK, BlocksDisjoint, Disjoint, Found, Matches
<1>2. /\ first_block' \in Seq(Block) /\ Disjoint(first_block')
      /\ \A b \in Addr : WordOf(first_block', b)
                           = IF b = a THEN v ELSE WordOf(first_block, b)
  <2>1. CASE Matches(Mask(a)) # {}
    <3>1. first_block' = [first_block EXCEPT ![Current(Mask(a))].mem[Offset(a)] = v]
      BY <2>1 DEF write_mem
    <3>2. PICK c \in DOMAIN first_block :
            c = Current(Mask(a)) /\ first_block[c].block_id = Mask(a)
      BY <2>1, CurrentFound
    <3>3. PICK new : new = first_block'
      OBVIOUS
    <3>4. new = Overwritten(first_block, c, a, v)
      BY <3>1, <3>2, <3>3 DEF Overwritten
    <3>5. /\ new \in Seq(Block) /\ Disjoint(new)
          /\ \A b \in Addr : WordOf(new, b)
                               = IF b = a THEN v ELSE WordOf(first_block, b)
      BY <1>1, <3>2, <3>4, WriteOld
    <3>6. QED
      BY <3>3, <3>5
  <2>2. CASE Matches(Mask(a)) = {}
    <3>1. first_block' = <<NewBlock(a, v)>> \o first_block
      BY <2>2 DEF write_mem
    <3>2. PICK new : new = first_block'
      OBVIOUS
    <3>3. new = Prepended(first_block, a, v)
      BY <3>1, <3>2 DEF Prepended
    <3>4. /\ new \in Seq(Block) /\ Disjoint(new)
          /\ \A b \in Addr : WordOf(new, b)
                               = IF b = a THEN v ELSE WordOf(first_block, b)
      BY <1>1, <2>2, <3>3, WriteNew
    <3>5. QED
      BY <3>2, <3>4
  <2>3. QED
    BY <2>1, <2>2
<1>3. TypeOK'
  BY <1>2 DEF TypeOK, write_mem
<1>4. BlocksDisjoint'
  BY <1>2 DEF BlocksDisjoint, Disjoint
<1>5. Words' = [b \in Addr |-> WordOf(first_block', b)]
  BY DEF Words, WordOf, Found, Matches, Current
<1>6. Words' = [Words EXCEPT ![a] = v]
  BY <1>2, <1>5, WordsAre
<1>7. QED
  BY <1>3, <1>4, <1>6 DEF write_mem, Flat!Write

LEMMA ReadStep ==
    ASSUME TypeOK, BlocksDisjoint, NEW a \in Addr, read_mem(a)
    PROVE  TypeOK' /\ BlocksDisjoint' /\ Flat!Read(a)
<1>1. destination' = Words[a]
  BY DEF read_mem, Words
<1>2. Words[a] \in Value
  <2>1. CASE Matches(Mask(a)) # {}
    <3>1. first_block[Current(Mask(a))] \in Block
      BY <2>1, CurrentFound DEF TypeOK
    <3>2. QED
      BY <2>1, <3>1, MaskOffset DEF Words, Block
  <2>2. CASE Matches(Mask(a)) = {}
    BY <2>2, SparseAssumption DEF Words
  <2>3. QED
    BY <2>1, <2>2
<1>3. Words' = Words
  BY DEF read_mem, Words, Matches, Current
<1>4. TypeOK'
  BY <1>1, <1>2 DEF TypeOK, read_mem
<1>5. BlocksDisjoint'
  BY DEF read_mem, BlocksDisjoint
<1>6. QED
  BY <1>1, <1>3, <1>4, <1>5 DEF read_mem, Flat!Read
-----------------------------------------------------------------------------
LEMMA SparseInit == Init => TypeOK /\ BlocksDisjoint
  BY SparseAssumption DEF Init, TypeOK, BlocksDisjoint

LEMMA SparseStep ==
    TypeOK /\ BlocksDisjoint /\ [Next]_vars
      => TypeOK' /\ BlocksDisjoint' /\ [Flat!Next]_<<Words, destination, op>>
<1> SUFFICES ASSUME TypeOK, BlocksDisjoint, [Next]_vars
             PROVE  TypeOK' /\ BlocksDisjoint' /\ [Flat!Next]_<<Words, destination, op>>
    OBVIOUS
<1>1. ASSUME NEW a \in Addr, read_mem(a)
      PROVE  TypeOK' /\ BlocksDisjoint' /\ Flat!Next
  BY <1>1, ReadStep DEF Flat!Next
<1>2. ASSUME NEW a \in Addr, NEW v \in Value, write_mem(a, v)
      PROVE  TypeOK' /\ BlocksDisjoint' /\ Flat!Next
  BY <1>2, WriteStep DEF Flat!Next
<1>3. CASE UNCHANGED vars
  BY <1>3 DEF vars, TypeOK, BlocksDisjoint, Words, Matches, Current
<1>4. QED
  BY <1>1, <1>2, <1>3 DEF Next

\* Every block of the list is a block of words at an aligned address.
THEOREM TypeCorrect == Spec => []TypeOK
  BY SparseInit, SparseStep, PTL DEF Spec

\* No two blocks cover the same addresses, whatever is written in which order.
THEOREM BlocksDisjointCorrect == Spec => []BlocksDisjoint
  BY SparseInit, SparseStep, PTL DEF Spec

\* read_mem and write_mem of testmain.c implement one flat memory.
THEOREM RefinesFlatMemCorrect == Spec => RefinesFlatMem
<1>1. Init => Flat!Init
  BY DEF Init, Flat!Init, Words, Matches
<1>2. QED
  BY <1>1, SparseInit, SparseStep, PTL DEF Spec, RefinesFlatMem, Flat!Spec
=============================================================================
