-------------------------------- MODULE Ibd ---------------------------------
(***************************************************************************)
(* The .ibd block-batch file of the qng command (src/cmd/qng/             *)
(* blockchain_cmds.go): exportBlockChain lists the blocks of a source     *)
(* node by DAG order or by DAG id and writes a 4-byte count followed by   *)
(* one {4-byte length, block bytes} record per block (IBDBlock.Encode);   *)
(* importBlockChain reads the whole file into memory, decodes the records *)
(* one by one (IBDBlock.Decode) and feeds each block to CheckBlockSanity  *)
(* and FastAcceptBlock on an empty target database.                      *)
(*                                                                         *)
(* The file is a sequence of bytes.  A block's bytes are Size[b] copies   *)
(* of its code, so NewBlockFromBytes succeeds exactly on a slice that is *)
(* the serialization of one block.  Each write may fail after writing a   *)
(* prefix of what it was given: the file is opened with O_TRUNC, and what *)
(* has been written stays.  The slice ReadFile returns may have spare     *)
(* capacity past the end of the file, zero-filled; Go lets a slice       *)
(* expression reach up to the capacity, so a read past the end either    *)
(* returns zeros or panics.                                               *)
(***************************************************************************)
EXTENDS Naturals, Sequences

CONSTANTS
  Blocks,     \* block hashes of the source node
  Genesis,    \* the genesis block (order 0, id 0: never exported)
  Parents,    \* Parents[b]: the parents in b's header
  ByOrder,    \* ByOrder[n]: GetBlockHashByOrder(n), n >= 1
  ById,       \* ById[n]: GetBlockById(n), or NoBlock where the DAG has none
  MainTip,    \* GetMainChainTip() of the source node
  Size,       \* Size[b]: the length of block b's serialization
  Code,       \* Code[b]: the byte block b's serialization is made of
  Insane,     \* blocks CheckBlockSanity rejects on the importing node
  Slack,      \* spare capacity ReadFile's buffer may have past the file
  NoBlock,    \* a nil *hash.Hash
  NoEnd,      \* the --end flag left empty
  BadEnd      \* an --end hash that does not parse or is not in the DAG

ASSUME BlocksAssumption ==
  /\ Genesis \in Blocks /\ Parents \in [Blocks -> SUBSET Blocks]
  /\ Parents[Genesis] = {}
  /\ {NoBlock, NoEnd, BadEnd} \cap Blocks = {}
ASSUME OrderAssumption ==
  \* the DAG order is topological and the main tip is its last block
  /\ ByOrder \in Seq(Blocks \ {Genesis}) /\ Len(ByOrder) > 0
  /\ ByOrder[Len(ByOrder)] = MainTip
  /\ \A n \in 1..Len(ByOrder) :
       Parents[ByOrder[n]] \subseteq {Genesis} \cup {ByOrder[m] : m \in 1..n - 1}
ASSUME IdAssumption ==
  \* ids are given in insertion order, so parents have smaller ids
  /\ ById \in Seq((Blocks \ {Genesis}) \cup {NoBlock})
  /\ \E n \in 1..Len(ById) : ById[n] = MainTip
  /\ \A n \in 1..Len(ById) : ById[n] # NoBlock =>
       Parents[ById[n]] \subseteq {Genesis} \cup {ById[m] : m \in 1..n - 1}
ASSUME CodecAssumption ==
  /\ Size \in [Blocks -> Nat \ {0}] /\ Code \in [Blocks -> 1..127]
  /\ \A a, b \in Blocks : a # b => Code[a] # Code[b]
  /\ Insane \subseteq Blocks /\ Slack \in Nat

VARIABLES
  byID,    \* the --byid flag of the export
  bhs,     \* the hashes the export collected
  file,    \* the bytes of the .ibd file
  k,       \* the next record the export writes
  exp,     \* where exportBlockChain is
  capa,    \* cap() of the slice the import read the file into
  count,   \* maxOrder: the count the import read from the header
  offset,  \* the import's offset into the file
  j,       \* the next record the import decodes
  idag,    \* the blocks of the importing node's DAG
  imp      \* where importBlockChain is

vars == <<byID, bhs, file, k, exp, capa, count, offset, j, idag, imp>>

-----------------------------------------------------------------------------
\* dbnamespace.ByteOrder (little endian) on 4 bytes.
PutUint32(v) == <<v % 256, (v \div 256) % 256, (v \div 65536) % 256, v \div 16777216>>

\* block.Bytes(): the serialization of block b.
BlockBytes(b) == [n \in 1..Size[b] |-> Code[b]]

\* The byte at 1-based position p of the slice read from the file: a byte
\* of the file, or a zero of the spare capacity.
Byte(p) == IF p <= Len(file) THEN file[p] ELSE 0

\* dbnamespace.ByteOrder.Uint32 on the 4 bytes after offset o.
Uint32At(o) ==
  Byte(o + 1) + 256 * Byte(o + 2) + 65536 * Byte(o + 3) + 16777216 * Byte(o + 4)

\* types.NewBlockFromBytes: the block the slice serializes, or NoBlock.
NewBlockFromBytes(s) ==
  IF \E b \in Blocks : BlockBytes(b) = s
    THEN CHOOSE b \in Blocks : BlockBytes(b) = s
    ELSE NoBlock

\* The position of a block in a lookup sequence; GetOrder and GetID.
IndexIn(s, b) == IF b = Genesis THEN 0 ELSE CHOOSE n \in 1..Len(s) : s[n] = b

\* bc.GetBlock(end).GetOrder() for a block outside the order is
\* MaxBlockOrder, which never lowers endNum.
OrderOf(b) ==
  IF b = Genesis \/ \E n \in 1..Len(ByOrder) : ByOrder[n] = b
    THEN IndexIn(ByOrder, b) ELSE Len(ByOrder)

IdOf(b) ==
  IF b = Genesis \/ \E n \in 1..Len(ById) : ById[n] = b
    THEN IndexIn(ById, b) ELSE Len(ById)

IndexSet(s) == {s[n] : n \in 1..Len(s)}

(***************************************************************************)
(* IBDBlock.Encode: the 4-byte length, then the bytes.                     *)
(***************************************************************************)
Encode(b) == PutUint32(Size[b]) \o BlockBytes(b)

-----------------------------------------------------------------------------
Init ==
  /\ byID = FALSE
  /\ bhs = <<>>
  /\ file = <<>>
  /\ k = 1
  /\ exp = "idle"
  /\ capa = 0
  /\ count = 0
  /\ offset = 0
  /\ j = 1
  /\ idag \in {{Genesis}} \cup {{Genesis, b} : b \in {x \in Blocks : Parents[x] = {Genesis}}}
  /\ imp = "idle"

importVars == <<capa, count, offset, j, idag, imp>>

(***************************************************************************)
(* exportBlockChain up to the count header: the file is created (or       *)
(* truncated) first; endNum is the main tip's id or order, lowered to    *)
(* the --end block's; ids 1..endNum without a block are skipped, orders  *)
(* without one are an error.  Every error returns with the file as it is. *)
(***************************************************************************)
CollectBlocks(id, end, lookup) ==
  LET tipNum == IF id THEN IdOf(MainTip) ELSE OrderOf(MainTip)
      endNum == IF end = NoEnd THEN tipNum
                ELSE LET e == IF id THEN IdOf(end) ELSE OrderOf(end) IN
                     IF tipNum > e THEN e ELSE tipNum
      listed == SelectSeq([n \in 1..endNum |-> lookup[n]], LAMBDA h : h # NoBlock)
  IN  /\ file' = <<>>
      /\ byID' = id
      /\ IF end = BadEnd \/ (~id /\ Len(listed) < endNum)
           THEN /\ exp' = "failed"
                /\ UNCHANGED bhs
           ELSE /\ bhs' = listed
                /\ exp' = "header"

ExportBlockChain ==
  /\ exp = "idle"
  /\ \E id \in BOOLEAN, end \in Blocks \cup {NoEnd, BadEnd} :
       CollectBlocks(id, end, IF id THEN ById ELSE ByOrder)
  /\ UNCHANGED <<k, importVars>>

\* A write of bytes w: all of them, or a prefix and an error.
Write(w, next) ==
  \/ /\ file' = file \o w
     /\ exp' = next
  \/ /\ \E p \in 0..Len(w) - 1 : file' = file \o SubSeq(w, 1, p)
     /\ exp' = "failed"

\* Variant for mutation runs: the count header holds endNum rather than
\* the number of blocks collected.
WriteHeaderEndNum ==
  /\ exp = "header"
  /\ Write(PutUint32(IF byID THEN IdOf(MainTip) ELSE OrderOf(MainTip)), "records")
  /\ UNCHANGED <<byID, bhs, k, importVars>>

\* The count header: uint32(len(bhs)).
WriteHeader ==
  /\ exp = "header"
  /\ Write(PutUint32(Len(bhs)), "records")
  /\ UNCHANGED <<byID, bhs, k, importVars>>

(***************************************************************************)
(* One pass of the record loop: FetchBlockByHash, block.Bytes and         *)
(* IBDBlock.Encode; the loop ends after the last collected block.         *)
(***************************************************************************)
WriteRecord ==
  /\ exp = "records"
  /\ \/ /\ k <= Len(bhs)
        /\ Write(Encode(bhs[k]), "records")
        /\ k' = k + 1
     \/ /\ k > Len(bhs)
        /\ exp' = "done"
        /\ UNCHANGED <<file, k>>
  /\ UNCHANGED <<byID, bhs, importVars>>

-----------------------------------------------------------------------------
(***************************************************************************)
(* importBlockChain up to the loop, run on the file the export left: a    *)
(* target whose main tip has a positive order is refused; otherwise the   *)
(* count is read from blocksBytes[0:4], which panics when the capacity   *)
(* is under 4 bytes.                                                      *)
(***************************************************************************)
ImportBlockChain ==
  /\ imp = "idle"
  /\ exp \in {"done", "failed"}
  /\ \/ /\ idag # {Genesis}
        /\ imp' = "refused"
        /\ UNCHANGED <<capa, count, offset>>
     \/ /\ idag = {Genesis}
        /\ \E c \in {Len(file), Len(file) + Slack} :
             /\ capa' = c
             /\ IF 4 > c
                  THEN /\ imp' = "panic"
                       /\ UNCHANGED <<count, offset>>
                  ELSE /\ count' = Uint32At(0)
                       /\ offset' = 4
                       /\ imp' = "loop"
  /\ UNCHANGED <<j, idag, byID, bhs, file, k, exp>>

(***************************************************************************)
(* IBDBlock.Decode on blocksBytes[offset:]: the length from the first 4   *)
(* bytes, then NewBlockFromBytes(bytes[4 : length+4]); a slice bound      *)
(* past the capacity panics.                                              *)
(***************************************************************************)
Decode(o) ==
  LET len == Uint32At(o) IN
  IF o + 4 > capa \/ o + len + 4 > capa THEN <<"panic", 0, NoBlock>>
  ELSE <<"ok", len, NewBlockFromBytes([n \in 1..len |-> Byte(o + 4 + n)])>>

\* FastAcceptBlock with BFFastAdd: no main-parent or context check; the
\* DAG refuses a known block or one with a missing parent.
Accepts(b) == b \notin Insane /\ b \notin idag /\ Parents[b] \subseteq idag

(***************************************************************************)
(* One pass of the import loop, i from 1 to maxOrder: decode at the       *)
(* offset, advance it by 4 + length, check and accept the block; any      *)
(* error ends the import.  After the last pass the import has succeeded.  *)
(***************************************************************************)
ImportRecord ==
  /\ imp = "loop"
  /\ \/ /\ j <= count
        /\ LET d == Decode(offset) IN
           \/ /\ d[1] = "panic"
              /\ imp' = "panic"
              /\ UNCHANGED <<offset, j, idag>>
           \/ /\ d[1] = "ok"
              /\ offset' = offset + 4 + d[2]
              /\ j' = j + 1
              /\ IF d[3] # NoBlock /\ Accepts(d[3])
                   THEN /\ idag' = idag \cup {d[3]}
                        /\ UNCHANGED imp
                   ELSE /\ imp' = "error"
                        /\ UNCHANGED idag
     \/ /\ j > count
        /\ imp' = "ok"
        /\ UNCHANGED <<offset, j, idag>>
  /\ UNCHANGED <<capa, count, byID, bhs, file, k, exp>>

Next ==
  \/ ExportBlockChain
  \/ WriteHeader
  \/ WriteRecord
  \/ ImportBlockChain
  \/ ImportRecord

Spec == Init /\ [][Next]_vars

-----------------------------------------------------------------------------
TypeOK ==
  /\ byID \in BOOLEAN
  /\ bhs \in Seq(Blocks)
  /\ file \in Seq(0..255)
  /\ exp \in {"idle", "header", "records", "done", "failed"}
  /\ imp \in {"idle", "loop", "ok", "refused", "error", "panic"}
  /\ idag \subseteq Blocks
  /\ k \in Nat /\ j \in Nat /\ offset \in Nat /\ count \in Nat /\ capa \in Nat

(***************************************************************************)
(* Round trip (spec 6, the serialized block-batch file): importing,     *)
(* into an empty database, the file of an export that finished rebuilds   *)
(* exactly the exported blocks: the import neither fails nor stops early, *)
(* whichever traversal and end point the export used and however much    *)
(* capacity the read buffer has.  This rests on the count header, the    *)
(* record framing of Encode/Decode and the offset arithmetic agreeing.    *)
(***************************************************************************)
RoundTrip ==
  exp = "done" /\ imp \in {"ok", "error", "panic"}
    => imp = "ok" /\ idag = {Genesis} \cup IndexSet(bhs)

(***************************************************************************)
(* An import reports success only for a file that a finished export       *)
(* wrote (spec 6: a count header, then that many records).  A failed    *)
(* export leaves whatever it had written in the file it truncated.        *)
(***************************************************************************)
ImportComplete == imp = "ok" => exp = "done"

=============================================================================
