---------------------------- MODULE ProcessImage ----------------------------
(***************************************************************************)
(* The process image of the cyclic I/O: the byte strings _varWr and _varRd *)
(* that the I/O thread exchanges with the server and that Lua reads and    *)
(* sets, with the buffers behind them and the places where the critical    *)
(* section _cs is, and is not, held.                                       *)
(*                                                                         *)
(* The thread's connection states are module CyclicIO; here they are one   *)
(* program counter, io, with a value for each access to shared memory.     *)
(* A UA_ByteString is its two words; a length is named by the value it is  *)
(* the length of.  Memory that nothing points to any more goes back to the *)
(* free buffers, and leaked remembers that it did.                         *)
(***************************************************************************)
EXTENDS Integers

CONSTANTS
  Values,    \* contents of a byte string that is not empty
  SrvValues, \* the contents the server's nodes may have
  LuaValues, \* the contents Lua may set
  Bufs,      \* heap buffers
  Zero,      \* the empty content, and the length 0
  Null,      \* the NULL pointer
  Free,      \* content of a buffer that is not allocated
  Gated      \* does Lua use the image only while getState() is true?

Torn == "torn"    \* a copy of something that is no byte string

ASSUME SentinelsAssumption ==
  /\ Zero \notin Values /\ Free \notin Values \cup {Zero}
  /\ Torn \notin Values \cup {Zero}
  /\ Null \notin Bufs
  /\ SrvValues \cup LuaValues \subseteq Values \cup {Zero}
  /\ Gated \in BOOLEAN

VARIABLES
  io,         \* where the thread is: see IoSteps
  todo,       \* words of the image that case 20 has still to assign
  img,        \* _varWr and _varRd
  initVal,    \* varInitVal of _wr and _rd: the data pointer of its byte string
  heap,       \* content of each buffer
  tmp,        \* local copy of the outputs in readwriteCyclic
  wrResult, rdResult,    \* retval_wr and retval_rd
  cyclic,     \* _state = 30
  srvOut,     \* value of the output node on the server
  lua, arg,   \* the Lua thread's step, and the value it sets
  outputs,    \* history: the outputs in force, set by Lua or taken from the server
  fault,      \* history: what went wrong with the memory, see Faults
  leaked      \* history: memory became unreachable without being freed

memVars  == <<img, initVal, heap, fault, leaked>>
results  == <<wrResult, rdResult>>
luaVars  == <<lua, arg>>
vars == <<io, todo, memVars, tmp, results, cyclic, srvOut, luaVars, outputs>>

Nodes    == {"wr", "rd"}
Words    == {"len", "data"}
IoSteps  == {"offline", "resolveWr", "resolveRd", "assign", "check", "copy", "send",
             "read", "end"}
LuaSteps == {"idle", "copy"}
Faults   == {"free", "send", "reply"}   \* freed twice; copied for the server or for
                                        \* Lua from memory that is not the string's
Contents == Values \cup {Zero}
Codes    == {"good", "bad"}

Empty == [len |-> Zero, data |-> Null]

(* EnterCriticalSection waits while Lua is between Enter and Leave. *)
Locked == lua = "copy"

-----------------------------------------------------------------------------
(* Memory                                                                  *)

Pointers(im, iv) == {im[n].data : n \in Nodes} \cup {iv[n] : n \in Nodes}

(* Allocated in the heap h, and out of reach of the image im and the values iv. *)
Lost(im, iv, h) == {b \in Bufs : h[b] # Free /\ b \notin Pointers(im, iv)}

Collect(im, iv, h) == [b \in Bufs |-> IF b \in Lost(im, iv, h) THEN Free ELSE h[b]]

(* Install the image im and the initial values iv over the heap h. *)
SetMemory(im, iv, h) ==
  /\ img' = im
  /\ initVal' = iv
  /\ heap' = Collect(im, iv, h)
  /\ leaked' = (leaked \/ Lost(im, iv, h) # {})

(* Buffers an allocation of v may return, over the heap h: one that a stale pointer
   still names, or any other, and those are interchangeable. *)
Allocations(h, v) ==
  LET free  == {b \in Bufs : h[b] = Free}
      fresh == free \ Pointers(img, initVal)
  IN IF v = Zero THEN {Null}
     ELSE {b \in free : b \in fresh => b = CHOOSE x \in fresh : TRUE}

Store(h, b, v) == IF b = Null THEN h ELSE [h EXCEPT ![b] = v]
Release(h, b)  == IF b = Null THEN h ELSE [h EXCEPT ![b] = Free]

(* A free of a buffer that is not allocated. *)
BadFree(b) == IF b # Null /\ heap[b] = Free THEN {"free"} ELSE {}

(* What UA_ByteString_copy finds at x. *)
Content(x) ==
  IF x.len = Zero THEN Zero
  ELSE IF x.data # Null /\ heap[x.data] = x.len THEN x.len
  ELSE Torn

-----------------------------------------------------------------------------
(* The I/O thread.                                                         *)

(* Cases 1 and 10 up to the connect.  Bound on the timing, when Lua is gated: the
   pause of at least a second in front of a reconnect outlasts a call that began
   while cyclic I/O was running. *)
Reconnect ==
  /\ io = "offline"
  /\ Gated => lua = "idle"
  /\ io' = "resolveWr"
  /\ UNCHANGED <<todo, memVars, tmp, results, cyclic, srvOut, luaVars, outputs>>

(* initCyclicInfo for node n: the old initial value is forgotten, not cleared, and
   the new one is read; the call may fail before that or after it. *)
ReadInitialClears(n) ==
  LET kept == Release(heap, initVal[n])
  IN \E v \in SrvValues : \E b \in Allocations(kept, v) :
       /\ fault' = fault \cup BadFree(initVal[n])
       /\ SetMemory(img, [initVal EXCEPT ![n] = b], Store(kept, b, v))

ReadInitial(n) ==
  LET dropped == [initVal EXCEPT ![n] = Null]
      kept    == Collect(img, dropped, heap)
  IN \E v \in SrvValues : \E b \in Allocations(kept, v) :
       /\ initVal' = [initVal EXCEPT ![n] = b]
       /\ heap' = Store(kept, b, v)
       /\ leaked' = (leaked \/ kept # heap)
       /\ UNCHANGED <<img, fault>>

ResolveNode(n, at, next) ==
  /\ io = at
  /\ \/ /\ ReadInitial(n)
        /\ io' \in {next, "offline"}
        /\ todo' = IF io' = "assign" THEN Nodes \X Words ELSE {}
     \/ /\ io' = "offline"
        /\ UNCHANGED <<todo, memVars>>
  /\ UNCHANGED <<tmp, results, cyclic, srvOut, luaVars, outputs>>

(* Mutant: the two words are exchanged. *)
AssignWordSwapped(n, w) ==
  /\ io = "assign" /\ <<n, w>> \in todo
  /\ todo' = todo \ {<<n, w>>}
  /\ io' = IF todo' = {} THEN "check" ELSE "assign"
  /\ img' = [img EXCEPT ![n][w] = IF w = "data" THEN Zero ELSE initVal[n]]
  /\ UNCHANGED <<initVal, heap, leaked, tmp, results, cyclic, srvOut, luaVars, outputs, fault>>

(* Case 20 sets _varWr, then _varRd, to the initial value's byte string itself: one
   word at a time, outside the critical section, and without a copy. *)
AssignWord(n, w) ==
  /\ io = "assign" /\ <<n, w>> \in todo
  /\ n = "rd" => \A x \in Words : <<"wr", x>> \notin todo
  /\ todo' = todo \ {<<n, w>>}
  /\ io' = IF todo' = {} THEN "check" ELSE "assign"
  /\ LET v    == IF initVal[n] = Null THEN Zero ELSE heap[initVal[n]]
         word == IF w = "len" THEN v ELSE initVal[n]
     IN /\ SetMemory([img EXCEPT ![n][w] = word], initVal, heap)
        /\ outputs' = IF n = "wr" THEN v ELSE outputs
  /\ UNCHANGED <<tmp, results, cyclic, srvOut, luaVars, fault>>

(* Mutants: the test reads the other image; only the first cycle writes. *)
CheckOutputsOfInputs ==
  /\ io = "check"
  /\ wrResult' = "good"
  /\ io' = IF img["rd"].len # Zero THEN "copy" ELSE "read"
  /\ UNCHANGED <<todo, memVars, tmp, rdResult, cyclic, srvOut, luaVars, outputs>>

CheckOutputsOnce ==
  /\ io = "check"
  /\ wrResult' = "good"
  /\ io' = IF img["wr"].len # Zero /\ ~cyclic THEN "copy" ELSE "read"
  /\ UNCHANGED <<todo, memVars, tmp, rdResult, cyclic, srvOut, luaVars, outputs>>

(* readwriteCyclic: the length is tested before the critical section is entered. *)
CheckOutputs ==
  /\ io = "check"
  /\ wrResult' = "good"
  /\ io' = IF img["wr"].len # Zero THEN "copy" ELSE "read"
  /\ UNCHANGED <<todo, memVars, tmp, rdResult, cyclic, srvOut, luaVars, outputs>>

CopyOutputsMoves ==
  /\ io = "copy" /\ ~Locked
  /\ tmp' = Content(img["wr"])
  /\ SetMemory([img EXCEPT !["wr"] = Empty], initVal, Release(heap, img["wr"].data))
  /\ io' = "send"
  /\ UNCHANGED <<todo, fault, results, cyclic, srvOut, luaVars, outputs>>

CopyOutputs ==
  /\ io = "copy" /\ ~Locked
  /\ tmp' = Content(img["wr"])
  /\ fault' = fault \cup (IF tmp' = Torn THEN {"send"} ELSE {})
  /\ io' = "send"
  /\ UNCHANGED <<todo, img, initVal, heap, leaked, results, cyclic, srvOut, luaVars, outputs>>

SendOutputs ==
  /\ io = "send"
  /\ \E r \in Codes :
       /\ wrResult' = r
       /\ srvOut' = IF r = "good" THEN tmp ELSE srvOut
  /\ tmp' = Zero
  /\ io' = "read"
  /\ UNCHANGED <<todo, memVars, rdResult, cyclic, luaVars, outputs>>

(* The read is made whatever became of the write.  A good one replaces the inputs
   inside the critical section. *)
ReadInputs ==
  /\ io = "read"
  /\ \/ /\ ~Locked
        /\ rdResult' = "good"
        /\ LET old == img["rd"].data IN
           \E v \in SrvValues : \E b \in Allocations(Release(heap, old), v) :
             /\ fault' = fault \cup BadFree(old)
             /\ SetMemory([img EXCEPT !["rd"] = [len |-> v, data |-> b]], initVal,
                          Store(Release(heap, old), b, v))
     \/ /\ rdResult' = "bad"
        /\ UNCHANGED memVars
  /\ io' = "end"
  /\ UNCHANGED <<todo, tmp, wrResult, cyclic, srvOut, luaVars, outputs>>

(* A failed exchange, or a connection found broken while the cycle waits, ends cyclic
   I/O.  The results are local to readwriteCyclic. *)
EndCycle ==
  /\ io = "end"
  /\ wrResult' = "good" /\ rdResult' = "good"
  /\ \/ /\ wrResult = "good" /\ rdResult = "good"
        /\ io' = "check"
        /\ cyclic' = TRUE
     \/ /\ io' = "offline"
        /\ cyclic' = FALSE
  /\ UNCHANGED <<todo, memVars, tmp, srvOut, luaVars, outputs>>

-----------------------------------------------------------------------------
(* The Lua thread.                                                         *)

MayCall == lua = "idle" /\ (Gated => cyclic)

(* SetOutputs up to the copy, with the critical section held. *)
ClearOutputs ==
  /\ MayCall
  /\ arg' \in LuaValues
  /\ lua' = "copy"
  /\ LET old == img["wr"].data
     IN /\ fault' = fault \cup BadFree(old)
        /\ SetMemory([img EXCEPT !["wr"] = IF old = Null THEN img["wr"] ELSE Empty],
                     initVal, Release(heap, old))
  /\ UNCHANGED <<io, todo, tmp, results, cyclic, srvOut, outputs>>

(* The copy and LeaveCriticalSection.  The copy overwrites both words. *)
StoreOutputs ==
  /\ lua = "copy"
  /\ \E b \in Allocations(heap, arg) :
       SetMemory([img EXCEPT !["wr"] = [len |-> arg, data |-> b]], initVal,
                 Store(heap, b, arg))
  /\ outputs' = arg
  /\ lua' = "idle"
  /\ arg' = Zero
  /\ UNCHANGED <<io, todo, tmp, results, cyclic, srvOut, fault>>

(* GetInputs and GetOutputs: a copy made in the critical section. *)
CopyImage(n) ==
  /\ MayCall
  /\ fault' = fault \cup (IF Content(img[n]) = Torn THEN {"reply"} ELSE {})
  /\ UNCHANGED <<io, todo, img, initVal, heap, leaked, tmp, results, cyclic, srvOut, luaVars, outputs>>

-----------------------------------------------------------------------------
Init ==
  /\ io = "offline" /\ todo = {} /\ cyclic = FALSE
  /\ img = [n \in Nodes |-> Empty]
  /\ initVal = [n \in Nodes |-> Null]
  /\ heap = [b \in Bufs |-> Free]
  /\ tmp = Zero
  /\ wrResult = "good" /\ rdResult = "good"
  /\ srvOut = Zero
  /\ lua = "idle" /\ arg = Zero
  /\ outputs = Zero /\ fault = {} /\ leaked = FALSE

IoStep ==
  \/ Reconnect
  \/ ResolveNode("wr", "resolveWr", "resolveRd")
  \/ ResolveNode("rd", "resolveRd", "assign")
  \/ \E n \in Nodes, w \in Words : AssignWord(n, w)
  \/ CheckOutputs \/ CopyOutputs \/ SendOutputs \/ ReadInputs \/ EndCycle

LuaCalls == ClearOutputs \/ \E n \in Nodes : CopyImage(n)

Next == IoStep \/ LuaCalls \/ StoreOutputs

Spec == Init /\ [][Next]_vars

(* Both threads are scheduled and no library call hangs; that Lua calls is nobody's
   promise. *)
FairSpec == Spec /\ WF_vars(IoStep) /\ WF_vars(StoreOutputs)

-----------------------------------------------------------------------------
TypeOK ==
  /\ io \in IoSteps /\ todo \in SUBSET (Nodes \X Words)
  /\ img \in [Nodes -> [len : Contents, data : Bufs \cup {Null}]]
  /\ initVal \in [Nodes -> Bufs \cup {Null}]
  /\ heap \in [Bufs -> Values \cup {Free}]
  /\ tmp \in Contents \cup {Torn} /\ srvOut \in Contents \cup {Torn}
  /\ wrResult \in Codes /\ rdResult \in Codes
  /\ cyclic \in BOOLEAN /\ fault \in SUBSET Faults /\ leaked \in BOOLEAN
  /\ lua \in LuaSteps /\ arg \in Contents /\ outputs \in Contents

(* However often the connection is lost and the nodes are read again, no buffer of
   the image is freed twice and none is copied after it was freed, although case 20
   lets the image share the buffers of varInitVal. *)
MemorySafe == fault = {}

(* Case 20 has set one word of node n and not the other. *)
HalfAssigned(n) == \E w, x \in Words : <<n, w>> \in todo /\ <<n, x>> \notin todo

(* Outside the critical section Lua finds in the outputs what was last put there, in
   every state of the thread: failed exchanges, the time without a connection and the
   reads of the nodes on a reconnect leave them as they are.  Case 20 of that reconnect
   replaces them by the server's value ("init write value"), which from then on are the
   outputs in force: nothing is claimed to survive it. *)
ImageHoldsOutputs ==
  lua # "copy" /\ ~HalfAssigned("wr") => Content(img["wr"]) = outputs

(* The length test outside the critical section costs at most the write of a cycle
   that SetOutputs overlaps: no other cycle skips the write of outputs in force. *)
WriteSkippedOnlyDuringSet ==
  [][io = "check" /\ io' = "read" => outputs = Zero \/ lua = "copy"]_vars

(* Outputs that stay in force are on the server after finitely many steps, or cyclic
   I/O ended, or Lua is setting others. *)
OutputsDelivered ==
  \A v \in Values :
    (cyclic /\ outputs = v) ~> (srvOut = v \/ ~cyclic \/ outputs # v \/ lua = "copy")

(* "the returned value is a copy": GetInputs and GetOutputs return the content of one
   byte string, never the length of one with the bytes of another. *)
ReplyIsWhole == "reply" \notin fault

(* "the returned object *must* be freed after use": the value readExtensionObjectValue
   returned into varInitVal can still be freed, once, by ~CyclicNode. *)
InitialValueIsAllocated == \A n \in Nodes : initVal[n] # Null => heap[initVal[n]] # Free

(* "Clear everything to prevent memory leaks for multiple calls": reading the nodes
   again on the next connection loses no memory. *)
NothingLeaks == ~leaked
=============================================================================
