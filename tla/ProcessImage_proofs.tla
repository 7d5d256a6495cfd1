------------------------ MODULE ProcessImage_proofs ------------------------
(***************************************************************************)
(* The memory of the process image is used as memory should be, and keeps  *)
(* the outputs, when Lua calls only during cyclic I/O: for any number of   *)
(* buffers and contents.                                                   *)
(*                                                                         *)
(* From case 20 on the image may share a buffer with varInitVal, and a     *)
(* pointer of varInitVal may dangle.  What counts is that no two byte      *)
(* strings of the image share one, and that a pointer of varInitVal is     *)
(* good from its read until case 20 has assigned it.                       *)
(***************************************************************************)
EXTENDS ProcessImage, TLAPS

Pointer == Bufs \cup {Null}
Strings == [len : Contents, data : Pointer]
Images  == [Nodes -> Strings]
Inits   == [Nodes -> Pointer]
Heaps   == [Bufs -> Values \cup {Free}]
Cycle   == {"check", "copy", "send", "read", "end"}

(* The content behind a pointer, whether it is allocated, and a byte string that is
   empty or has a buffer with as much as its length says. *)
ValueAt(h, p) == IF p = Null THEN Zero ELSE h[p]
Live(h, p)    == p # Null => h[p] # Free
Whole(h, x)   == x.len = ValueAt(h, x.data) /\ Live(h, x.data)
Apart(p, q)   == p = q => p = Null

WhenInv ==
  /\ cyclic => io \in Cycle
  /\ lua = "copy" => io \in Cycle \cup {"offline"}
  /\ todo # {} => io = "assign"
  /\ io = "assign" => todo # {}
  /\ \A w \in Words : <<"wr", w>> \in todo => \A x \in Words : <<"rd", x>> \in todo

ImageInv ==
  io # "assign" =>
    /\ Whole(heap, img["rd"])
    /\ lua = "idle" => Whole(heap, img["wr"])
    /\ lua = "copy" => img["wr"] = Empty
    /\ Apart(img["wr"].data, img["rd"].data)

(* The initial values are good from their read until they are assigned. *)
InitialInv ==
  /\ io \in {"resolveRd", "assign"} => Live(heap, initVal["wr"])
  /\ io = "assign" => Live(heap, initVal["rd"]) /\ Apart(initVal["wr"], initVal["rd"])

AssignedInv ==
  io = "assign" => \A n \in Nodes :
    /\ <<n, "len">> \notin todo => img[n].len = ValueAt(heap, initVal[n])
    /\ <<n, "data">> \notin todo => img[n].data = initVal[n]

OutputsInv ==
  /\ io # "assign" /\ lua = "idle" => img["wr"].len = outputs
  /\ io = "assign" /\ (\A w \in Words : <<"wr", w>> \in todo) =>
       Whole(heap, img["wr"]) /\ img["wr"].len = outputs
  /\ io = "assign" /\ (\E w \in Words : <<"wr", w>> \notin todo) =>
       outputs = ValueAt(heap, initVal["wr"])

IInv == /\ TypeOK /\ WhenInv /\ MemorySafe
        /\ ImageInv /\ InitialInv /\ AssignedInv /\ OutputsInv

-----------------------------------------------------------------------------
(* Memory                                                                  *)

LEMMA CollectFacts ==
  ASSUME NEW im \in Images, NEW iv \in Inits, NEW h \in Heaps
  PROVE  /\ Collect(im, iv, h) \in Heaps
         /\ \A n \in Nodes : im[n].data # Null => Collect(im, iv, h)[im[n].data] = h[im[n].data]
         /\ \A n \in Nodes : iv[n] # Null => Collect(im, iv, h)[iv[n]] = h[iv[n]]
<1>1. Collect(im, iv, h) \in Heaps
  BY DEF Collect, Lost, Heaps
<1>2. ASSUME NEW b \in Bufs, b \in Pointers(im, iv)
      PROVE  Collect(im, iv, h)[b] = h[b]
  BY <1>2 DEF Collect, Lost, Heaps
<1>3. \A n \in Nodes : im[n].data \in Pointers(im, iv) /\ iv[n] \in Pointers(im, iv)
                       /\ im[n].data \in Pointer /\ iv[n] \in Pointer
  BY DEF Pointers, Images, Inits, Strings
<1> QED
  BY <1>1, <1>2, <1>3 DEF Pointer

LEMMA StoreFacts ==
  ASSUME NEW h \in Heaps, NEW v \in Contents, NEW b \in Allocations(h, v)
  PROVE  /\ b \in Pointer /\ Store(h, b, v) \in Heaps
         /\ ValueAt(Store(h, b, v), b) = v /\ Live(Store(h, b, v), b)
         /\ \A p \in Pointer : Live(h, p) =>
              Apart(p, b) /\ ValueAt(Store(h, b, v), p) = ValueAt(h, p)
                          /\ Live(Store(h, b, v), p)
<1>1. CASE v = Zero
  <2>1. b = Null /\ Store(h, b, v) = h
    BY <1>1 DEF Allocations, Store
  <2> QED
    BY <1>1, <2>1 DEF Pointer, ValueAt, Live, Apart
<1>2. CASE v # Zero
  <2>1. b \in Bufs /\ h[b] = Free /\ v \in Values /\ b # Null
    BY <1>2, SentinelsAssumption DEF Allocations, Contents
  <2>2. Store(h, b, v) = [h EXCEPT ![b] = v] /\ v # Free
    BY <2>1, SentinelsAssumption DEF Store
  <2> QED
    BY <2>1, <2>2 DEF Pointer, ValueAt, Live, Apart, Heaps
<1> QED
  BY <1>1, <1>2

LEMMA ReleaseFacts ==
  ASSUME NEW h \in Heaps, NEW b \in Pointer
  PROVE  /\ Release(h, b) \in Heaps
         /\ \A p \in Pointer : Apart(p, b) =>
              ValueAt(Release(h, b), p) = ValueAt(h, p) /\ (Live(h, p) => Live(Release(h, b), p))
<1>1. CASE b = Null
  BY <1>1 DEF Release
<1>2. CASE b # Null
  <2>1. Release(h, b) = [h EXCEPT ![b] = Free] /\ b \in Bufs
    BY <1>2 DEF Release, Pointer
  <2> QED
    BY <1>2, <2>1 DEF Pointer, ValueAt, Live, Apart, Heaps
<1> QED
  BY <1>1, <1>2

(* A whole byte string has its length as content, and is not torn. *)
LEMMA WholeContent ==
  ASSUME heap \in Heaps, NEW x \in Strings, Whole(heap, x)
  PROVE  Content(x) = x.len /\ Content(x) # Torn
<1>1. CASE x.len = Zero
  BY <1>1, SentinelsAssumption DEF Content
<1>2. CASE x.len # Zero
  <2>1. x.data # Null /\ heap[x.data] = x.len
    BY <1>2 DEF Whole, ValueAt
  <2>2. x.len # Torn
    BY SentinelsAssumption DEF Strings, Contents
  <2> QED
    BY <1>2, <2>1, <2>2 DEF Content
<1> QED
  BY <1>1, <1>2

(* The image and the initial values are what SetMemory installs; reachable pointers
   keep their buffers. *)
LEMMA Installed ==
  ASSUME NEW im \in Images, NEW iv \in Inits, NEW h \in Heaps, SetMemory(im, iv, h),
         leaked \in BOOLEAN
  PROVE  /\ img' = im /\ initVal' = iv /\ heap' \in Heaps /\ leaked' \in BOOLEAN
         /\ \A n \in Nodes :
              /\ ValueAt(heap', im[n].data) = ValueAt(h, im[n].data)
              /\ Live(h, im[n].data) => Live(heap', im[n].data)
              /\ Whole(h, im[n]) => Whole(heap', im[n])
              /\ ValueAt(heap', iv[n]) = ValueAt(h, iv[n])
              /\ Live(h, iv[n]) => Live(heap', iv[n])
<1>1. img' = im /\ initVal' = iv /\ heap' = Collect(im, iv, h)
  BY DEF SetMemory
<1>2. leaked' \in BOOLEAN
  BY DEF SetMemory
<1>3. \A n \in Nodes : im[n].data # Null => heap'[im[n].data] = h[im[n].data]
  BY <1>1, CollectFacts
<1>4. \A n \in Nodes : iv[n] # Null => heap'[iv[n]] = h[iv[n]]
  BY <1>1, CollectFacts
<1> QED
  BY <1>1, <1>2, <1>3, <1>4, CollectFacts DEF ValueAt, Live, Whole

LEMMA ImageSet ==
  ASSUME NEW im \in Images, NEW n \in Nodes, NEW s \in Strings
  PROVE  /\ [im EXCEPT ![n] = s] \in Images /\ [im EXCEPT ![n] = s][n] = s
         /\ \A m \in Nodes : m # n => [im EXCEPT ![n] = s][m] = im[m]
BY DEF Images

SetWord(im, n, w, x) == [im EXCEPT ![n][w] = x]

LEMMA WordSet ==
  ASSUME NEW im \in Images, NEW n \in Nodes, NEW w \in Words, NEW x,
         w = "len" => x \in Contents, w = "data" => x \in Pointer
  PROVE  /\ SetWord(im, n, w, x) \in Images
         /\ w = "len"  => SetWord(im, n, w, x)[n].len = x /\ SetWord(im, n, w, x)[n].data = im[n].data
         /\ w = "data" => SetWord(im, n, w, x)[n].data = x /\ SetWord(im, n, w, x)[n].len = im[n].len
         /\ \A m \in Nodes : m # n => SetWord(im, n, w, x)[m] = im[m]
<1>1. CASE w = "len"
  BY <1>1 DEF SetWord, Images, Strings
<1>2. CASE w = "data"
  BY <1>2 DEF SetWord, Images, Strings
<1> QED
  BY <1>1, <1>2 DEF Words

(* Reading an initial value harms neither the image nor the other initial value. *)
LEMMA InitialRead ==
  ASSUME TypeOK, NEW n \in Nodes, ReadInitial(n)
  PROVE  /\ img' = img /\ fault' = fault /\ leaked' \in BOOLEAN
         /\ initVal' \in Inits /\ heap' \in Heaps /\ Live(heap', initVal'[n])
         /\ \A m \in Nodes : Whole(heap, img[m]) => Whole(heap', img'[m])
         /\ \A m \in Nodes \ {n} : Live(heap, initVal[m]) =>
              Live(heap', initVal'[m]) /\ Apart(initVal'[m], initVal'[n])
<1> DEFINE dropped == [initVal EXCEPT ![n] = Null]
           kept    == Collect(img, dropped, heap)
<1>1. PICK v \in SrvValues : \E b \in Allocations(kept, v) :
        /\ initVal' = [initVal EXCEPT ![n] = b]
        /\ heap' = Store(kept, b, v)
        /\ leaked' = (leaked \/ kept # heap)
        /\ UNCHANGED <<img, fault>>
  BY Zenon DEF ReadInitial
<1>2. PICK b \in Allocations(kept, v) :
        /\ initVal' = [initVal EXCEPT ![n] = b]
        /\ heap' = Store(kept, b, v)
        /\ leaked' = (leaked \/ kept # heap)
        /\ UNCHANGED <<img, fault>>
  BY <1>1, Zenon
<1>3. img \in Images /\ initVal \in Inits /\ heap \in Heaps /\ dropped \in Inits
  BY DEF TypeOK, Images, Strings, Inits, Heaps, Pointer
<1>4. v \in Contents
  BY SentinelsAssumption DEF Contents
<1>5. dropped[n] = Null /\ \A m \in Nodes \ {n} : dropped[m] = initVal[m]
  BY <1>3 DEF Inits
<1> HIDE DEF dropped
<1>6. /\ kept \in Heaps
      /\ \A m \in Nodes : img[m].data # Null => kept[img[m].data] = heap[img[m].data]
      /\ \A m \in Nodes : dropped[m] # Null => kept[dropped[m]] = heap[dropped[m]]
  BY <1>3, CollectFacts
<1> HIDE DEF kept
<1>7. /\ b \in Pointer /\ heap' \in Heaps /\ Live(heap', b)
      /\ \A p \in Pointer : Live(kept, p) =>
              Apart(p, b) /\ ValueAt(heap', p) = ValueAt(kept, p) /\ Live(heap', p)
  BY <1>2, <1>4, <1>6, StoreFacts
<1>8. initVal' \in Inits /\ initVal'[n] = b /\ \A m \in Nodes \ {n} : initVal'[m] = initVal[m]
  BY <1>2, <1>3, <1>7 DEF Inits
<1>9. img' = img /\ fault' = fault /\ leaked' \in BOOLEAN
  BY <1>2
<1>10. ASSUME NEW m \in Nodes, Whole(heap, img[m])
       PROVE  Whole(heap', img'[m])
  <2>1. img[m].data \in Pointer
    BY <1>3 DEF Images, Strings
  <2>2. Whole(kept, img[m])
    BY <1>6, <1>10 DEF Whole, ValueAt, Live
  <2> QED
    BY <1>7, <1>9, <2>1, <2>2 DEF Whole
<1>11. ASSUME NEW m \in Nodes \ {n}, Live(heap, initVal[m])
       PROVE  Live(heap', initVal'[m]) /\ Apart(initVal'[m], initVal'[n])
  <2>1. initVal[m] \in Pointer
    BY <1>3 DEF Inits
  <2>2. Live(kept, initVal[m])
    BY <1>5, <1>6, <1>11 DEF Live
  <2> QED
    BY <1>7, <1>8, <2>1, <2>2
<1> QED
  BY <1>7, <1>8, <1>9, <1>10, <1>11

-----------------------------------------------------------------------------
(* The invariant, step by step                                             *)

LEMMA InitHolds == Init => IInv
<1> SUFFICES ASSUME Init PROVE IInv
  OBVIOUS
<1> USE DEF Init
<1>1. TypeOK
  BY DEF TypeOK, IoSteps, Empty, Contents, Codes, LuaSteps
<1>2. WhenInv /\ MemorySafe
  BY DEF WhenInv, MemorySafe
<1>3. ImageInv
  BY DEF ImageInv, Whole, ValueAt, Live, Apart, Empty, Nodes
<1>4. InitialInv /\ AssignedInv
  BY DEF InitialInv, AssignedInv
<1>5. OutputsInv
  BY DEF OutputsInv, Empty, Nodes
<1> QED
  BY <1>1, <1>2, <1>3, <1>4, <1>5 DEF IInv

LEMMA Reconnects == Gated /\ IInv /\ Reconnect => IInv'
<1> SUFFICES ASSUME Gated, IInv, Reconnect PROVE IInv'
  OBVIOUS
<1> USE DEF IInv, Reconnect, memVars, results, luaVars
<1>1. TypeOK'
  BY DEF TypeOK, IoSteps
<1>2. WhenInv' /\ MemorySafe'
  BY DEF WhenInv, MemorySafe, Cycle
<1>3. ImageInv'
  BY DEF ImageInv
<1>4. InitialInv' /\ AssignedInv'
  BY DEF InitialInv, AssignedInv
<1>5. OutputsInv'
  BY DEF OutputsInv, Cycle
<1> QED
  BY <1>1, <1>2, <1>3, <1>4, <1>5

LEMMA ResolveFails ==
  ASSUME IInv, io \in {"resolveWr", "resolveRd"}, io' = "offline",
         UNCHANGED <<todo, memVars, tmp, results, cyclic, srvOut, luaVars, outputs>>
  PROVE  IInv'
<1> USE DEF IInv, memVars, results, luaVars
<1>1. TypeOK'
  BY DEF TypeOK, IoSteps
<1>2. WhenInv' /\ MemorySafe'
  BY DEF WhenInv, MemorySafe, Cycle
<1>3. ImageInv'
  BY DEF ImageInv
<1>4. InitialInv' /\ AssignedInv'
  BY DEF InitialInv, AssignedInv
<1>5. OutputsInv'
  BY DEF OutputsInv, Cycle
<1> QED
  BY <1>1, <1>2, <1>3, <1>4, <1>5

LEMMA Resolves ==
  ASSUME IInv, NEW n \in Nodes, NEW at, NEW next,
         <<n, at, next>> \in {<<"wr", "resolveWr", "resolveRd">>, <<"rd", "resolveRd", "assign">>},
         ResolveNode(n, at, next)
  PROVE  IInv'
<1> USE DEF IInv
<1>1. CASE /\ io' = "offline"
           /\ UNCHANGED <<todo, memVars, tmp, results, cyclic, srvOut, luaVars, outputs>>
  BY <1>1, ResolveFails DEF ResolveNode
<1>2. CASE /\ ReadInitial(n) /\ io' \in {next, "offline"}
           /\ todo' = IF io' = "assign" THEN Nodes \X Words ELSE {}
  <2>1. /\ img' = img /\ fault' = fault /\ leaked' \in BOOLEAN
        /\ initVal' \in Inits /\ heap' \in Heaps /\ Live(heap', initVal'[n])
        /\ \A m \in Nodes : Whole(heap, img[m]) => Whole(heap', img'[m])
        /\ \A m \in Nodes \ {n} : Live(heap, initVal[m]) =>
              Live(heap', initVal'[m]) /\ Apart(initVal'[m], initVal'[n])
    BY <1>2, InitialRead
  <2>2. /\ io = at /\ io \in {"resolveWr", "resolveRd"}
        /\ UNCHANGED <<tmp, results, cyclic, srvOut, luaVars, outputs>>
    BY DEF ResolveNode
  <2>3. io' \in {"resolveRd", "assign", "offline"}
        /\ (io' = "assign" => n = "rd" /\ io = "resolveRd")
        /\ (io' = "resolveRd" => n = "wr")
    BY <1>2, <2>2
  <2>4. ~cyclic /\ lua = "idle" /\ lua \in LuaSteps
    BY <2>2 DEF WhenInv, Cycle, TypeOK, LuaSteps
  <2>5. TypeOK'
    BY <1>2, <2>1, <2>2, <2>3 DEF TypeOK, IoSteps, results, luaVars, Inits, Heaps, Pointer
  <2>6. WhenInv' /\ MemorySafe'
    BY <1>2, <2>1, <2>2, <2>3, <2>4 DEF WhenInv, MemorySafe, luaVars, Nodes, Words
  <2>7. ImageInv'
    BY <2>1, <2>2, <2>4 DEF ImageInv, luaVars, Nodes
  <2>8. InitialInv'
    BY <2>1, <2>2, <2>3 DEF InitialInv, Nodes
  <2>9. AssignedInv'
    BY <1>2, <2>3 DEF AssignedInv, Nodes, Words
  <2>10. OutputsInv'
    <3>1. ASSUME io' # "assign", lua' = "idle" PROVE img'["wr"].len = outputs'
      BY <2>1, <2>2, <2>4, <3>1 DEF OutputsInv
    <3>2. ASSUME io' = "assign" PROVE Whole(heap', img'["wr"]) /\ img'["wr"].len = outputs'
      <4>1. Whole(heap, img["wr"]) /\ img["wr"].len = outputs
        BY <2>2, <2>4 DEF ImageInv, OutputsInv
      <4> QED
        BY <2>1, <2>2, <4>1 DEF Nodes
    <3>3. io' = "assign" => \A w \in Words : <<"wr", w>> \in todo'
      BY <1>2 DEF Nodes, Words
    <3> QED
      BY <3>1, <3>2, <3>3 DEF OutputsInv
  <2> QED
    BY <2>5, <2>6, <2>7, <2>8, <2>9, <2>10
<1> QED
  BY <1>1, <1>2, Zenon DEF ResolveNode

LEMMA Assigns ==
  ASSUME IInv, NEW n \in Nodes, NEW w \in Words, AssignWord(n, w)
  PROVE  IInv'
<1> USE DEF IInv
<1> DEFINE v    == ValueAt(heap, initVal[n])
           word == IF w = "len" THEN v ELSE initVal[n]
           im   == SetWord(img, n, w, word)
<1>1. img \in Images /\ initVal \in Inits /\ heap \in Heaps /\ leaked \in BOOLEAN
  BY DEF TypeOK, Images, Strings, Inits, Heaps, Pointer
<1>2. /\ io = "assign" /\ <<n, w>> \in todo
      /\ n = "rd" => \A x \in Words : <<"wr", x>> \notin todo
      /\ todo' = todo \ {<<n, w>>}
      /\ io' = IF todo' = {} THEN "check" ELSE "assign"
      /\ SetMemory(im, initVal, heap)
      /\ outputs' = IF n = "wr" THEN v ELSE outputs
      /\ UNCHANGED <<tmp, results, cyclic, srvOut, luaVars, fault>>
  BY DEF AssignWord, ValueAt, SetWord
<1>3. Live(heap, initVal["wr"]) /\ Live(heap, initVal["rd"])
      /\ Apart(initVal["wr"], initVal["rd"])
  BY <1>2 DEF InitialInv
<1>4. v \in Contents /\ initVal[n] \in Pointer
  <2>1. initVal[n] \in Pointer /\ Live(heap, initVal[n])
    BY <1>1, <1>3 DEF Inits, Nodes
  <2> QED
    BY <1>1, <2>1 DEF ValueAt, Live, Heaps, Pointer, Contents
<1>5. /\ im \in Images
      /\ w = "len"  => im[n].len = v /\ im[n].data = img[n].data
      /\ w = "data" => im[n].data = initVal[n] /\ im[n].len = img[n].len
      /\ \A m \in Nodes : m # n => im[m] = img[m]
  <2>1. (w = "len" => word = v) /\ (w = "data" => word = initVal[n])
    OBVIOUS
  <2> HIDE DEF v, word
  <2> QED
    BY <1>1, <1>4, <2>1, WordSet
<1> HIDE DEF im
<1>6. /\ img' = im /\ initVal' = initVal /\ heap' \in Heaps /\ leaked' \in BOOLEAN
      /\ \A m \in Nodes : /\ ValueAt(heap', initVal[m]) = ValueAt(heap, initVal[m])
                          /\ Live(heap, initVal[m]) => Live(heap', initVal[m])
  BY <1>1, <1>2, <1>5, Installed
<1>7. ~cyclic /\ lua = "idle"
  BY <1>2 DEF WhenInv, Cycle, TypeOK, LuaSteps
<1>8. TypeOK'
  <2>1. todo' \in SUBSET (Nodes \X Words) /\ io' \in IoSteps
    BY <1>2 DEF TypeOK, IoSteps
  <2>2. outputs' \in Contents
    <3> HIDE DEF v
    <3> QED
      BY <1>2, <1>4 DEF TypeOK
  <2>3. UNCHANGED <<tmp, wrResult, rdResult, cyclic, srvOut, lua, arg, fault>>
    BY <1>2 DEF results, luaVars
  <2> QED
    BY <1>1, <1>5, <1>6, <2>1, <2>2, <2>3
    DEF TypeOK, Images, Strings, Inits, Heaps, Pointer
<1>9. WhenInv' /\ MemorySafe'
  BY <1>2, <1>7 DEF WhenInv, MemorySafe, Cycle, luaVars, Words
<1>10. AssignedInv /\ \A m \in Nodes :
         /\ <<m, "len">> \notin todo' => img'[m].len = ValueAt(heap', initVal'[m])
         /\ <<m, "data">> \notin todo' => img'[m].data = initVal'[m]
  BY <1>2, <1>5, <1>6 DEF AssignedInv, Words
<1>11. AssignedInv'
  BY <1>10 DEF AssignedInv
<1>12. InitialInv'
  BY <1>2, <1>3, <1>6 DEF InitialInv, Nodes
<1>13. ImageInv'
  <2> SUFFICES ASSUME todo' = {} PROVE ImageInv'
    BY <1>2 DEF ImageInv
  <2>1. \A m \in Nodes : img'[m].len = ValueAt(heap', initVal[m]) /\ img'[m].data = initVal[m]
    BY <1>6, <1>10
  <2>2. \A m \in Nodes : Whole(heap', img'[m])
    BY <1>3, <1>6, <2>1 DEF Whole, Nodes
  <2>3. Apart(img'["wr"].data, img'["rd"].data)
    BY <1>3, <2>1 DEF Nodes
  <2>4. lua' = "idle"
    BY <1>2, <1>7 DEF luaVars
  <2> QED
    BY <2>2, <2>3, <2>4 DEF ImageInv, Nodes
<1>14. OutputsInv'
  <2>1. n = "wr" => outputs' = ValueAt(heap', initVal'["wr"])
    BY <1>2, <1>6
  <2>2. n # "wr" => outputs' = outputs /\ \A x \in Words : <<"wr", x>> \notin todo
    BY <1>2 DEF Nodes
  <2>3. n # "wr" => outputs = ValueAt(heap, initVal["wr"])
    BY <1>2, <2>2 DEF OutputsInv, Words
  <2>4. outputs' = ValueAt(heap', initVal'["wr"])
    BY <1>6, <2>1, <2>2, <2>3 DEF Nodes
  <2>5. io' # "assign" => img'["wr"].len = outputs'
    BY <1>2, <1>6, <1>10, <2>4 DEF Nodes
  <2>6. ~ \A x \in Words : <<"wr", x>> \in todo'
    BY <1>2 DEF Nodes, Words
  <2> QED
    BY <1>2, <2>4, <2>5, <2>6, Zenon DEF OutputsInv
<1> QED
  BY <1>8, <1>9, <1>11, <1>12, <1>13, <1>14

(* Steps of a cycle that leave image, memory and outputs alone. *)
LEMMA CycleGoesOn ==
  ASSUME IInv, TypeOK', io \in Cycle, io' \in Cycle \cup {"offline"},
         cyclic' => io' \in Cycle,
         UNCHANGED <<todo, memVars, lua, outputs>>
  PROVE  IInv'
<1> USE DEF IInv, memVars
<1>1. WhenInv' /\ MemorySafe'
  BY DEF WhenInv, MemorySafe, Cycle
<1>2. ImageInv'
  BY DEF ImageInv, Cycle
<1>3. InitialInv' /\ AssignedInv'
  BY DEF InitialInv, AssignedInv, Cycle
<1>4. OutputsInv'
  BY DEF OutputsInv, Cycle
<1> QED
  BY <1>1, <1>2, <1>3, <1>4

LEMMA Cycles ==
  ASSUME IInv, CheckOutputs \/ SendOutputs \/ EndCycle
  PROVE  IInv'
<1> USE DEF IInv, memVars, results, luaVars
<1>1. CASE CheckOutputs
  <2>1. TypeOK'
    BY <1>1 DEF CheckOutputs, TypeOK, IoSteps, Codes
  <2> QED
    BY <1>1, <2>1, CycleGoesOn DEF CheckOutputs, Cycle
<1>2. CASE SendOutputs
  <2>1. TypeOK'
    BY <1>2 DEF SendOutputs, TypeOK, IoSteps, Codes, Contents
  <2> QED
    BY <1>2, <2>1, CycleGoesOn DEF SendOutputs, Cycle
<1>3. CASE EndCycle
  <2>1. TypeOK'
    BY <1>3 DEF EndCycle, TypeOK, IoSteps, Codes
  <2> QED
    BY <1>3, <2>1, CycleGoesOn DEF EndCycle, Cycle
<1> QED
  BY <1>1, <1>2, <1>3

LEMMA Copies ==
  ASSUME IInv, CopyOutputs
  PROVE  IInv'
<1> USE DEF IInv, memVars, results, luaVars
<1>1. io = "copy" /\ io' = "send" /\ tmp' = Content(img["wr"])
      /\ fault' = fault \cup (IF tmp' = Torn THEN {"send"} ELSE {})
      /\ UNCHANGED <<todo, img, initVal, heap, leaked, results, cyclic, srvOut, luaVars, outputs>>
  BY DEF CopyOutputs
<1>2. lua = "idle"
  BY DEF CopyOutputs, Locked, TypeOK, LuaSteps
<1>3. Whole(heap, img["wr"]) /\ heap \in Heaps /\ img["wr"] \in Strings
  BY <1>1, <1>2 DEF ImageInv, TypeOK, Heaps, Strings, Pointer, Nodes
<1>4. tmp' # Torn /\ tmp' \in Contents
  BY <1>1, <1>3, WholeContent DEF Strings
<1>5. fault' = fault
  BY <1>1, <1>4
<1>6. TypeOK'
  BY <1>1, <1>4, <1>5 DEF TypeOK, IoSteps
<1> QED
  BY <1>1, <1>5, <1>6, CycleGoesOn DEF Cycle

LEMMA CopiesImage ==
  ASSUME Gated, IInv, NEW n \in Nodes, CopyImage(n)
  PROVE  IInv'
<1> USE DEF IInv, memVars, results, luaVars
<1>1. lua = "idle" /\ io \in Cycle
  BY DEF CopyImage, MayCall, WhenInv
<1>2. fault' = fault \cup (IF Content(img[n]) = Torn THEN {"reply"} ELSE {})
      /\ UNCHANGED <<io, todo, img, initVal, heap, leaked, tmp, results, cyclic, srvOut, luaVars,
                    outputs>>
  BY DEF CopyImage
<1>3. Whole(heap, img[n]) /\ heap \in Heaps /\ img[n] \in Strings
  BY <1>1 DEF ImageInv, TypeOK, Heaps, Strings, Pointer, Nodes, Cycle
<1>4. fault' = fault
  BY <1>2, <1>3, WholeContent
<1>5. TypeOK'
  BY <1>2, <1>4 DEF TypeOK
<1> QED
  BY <1>1, <1>2, <1>4, <1>5, CycleGoesOn DEF WhenInv

(* An exchange of one byte string of the image while nothing is assigned from the
   initial values: the old buffer is released, perhaps a new one is stored. *)
LEMMA ImageReplaced ==
  ASSUME IInv, NEW n \in Nodes, NEW o \in Nodes, o # n, NEW s \in Strings, NEW h \in Heaps,
         SetMemory([img EXCEPT ![n] = s], initVal, h),
         Whole(h, s), Whole(h, img[o]), Apart(s.data, img[o].data)
  PROVE  /\ img' \in Images /\ img'[n] = s /\ img'[o] = img[o] /\ initVal' = initVal
         /\ heap' \in Heaps /\ leaked' \in BOOLEAN
         /\ Whole(heap', img'[n]) /\ Whole(heap', img'[o])
         /\ Apart(img'["wr"].data, img'["rd"].data)
<1> DEFINE im == [img EXCEPT ![n] = s]
<1>1. img \in Images /\ initVal \in Inits /\ leaked \in BOOLEAN
  BY DEF IInv, TypeOK, Images, Strings, Inits, Pointer
<1>2. im \in Images /\ im[n] = s /\ im[o] = img[o]
  BY <1>1, ImageSet
<1> HIDE DEF im
<1>3. /\ img' = im /\ initVal' = initVal /\ heap' \in Heaps /\ leaked' \in BOOLEAN
      /\ \A m \in Nodes : Whole(h, im[m]) => Whole(heap', im[m])
  <2>1. SetMemory(im, initVal, h)
    BY DEF im
  <2> QED
    BY <1>1, <1>2, <2>1, Installed
<1>4. Apart(im["wr"].data, im["rd"].data)
  BY <1>2 DEF Apart, Nodes
<1> QED
  BY <1>2, <1>3, <1>4

LEMMA Reads ==
  ASSUME IInv, ReadInputs
  PROVE  IInv'
<1> USE DEF IInv
<1>1. /\ io = "read" /\ io' = "end"
      /\ UNCHANGED <<todo, tmp, wrResult, cyclic, srvOut, luaVars, outputs>>
  BY DEF ReadInputs
<1>2. CASE rdResult' = "bad" /\ UNCHANGED memVars
  <2>1. TypeOK'
    BY <1>1, <1>2 DEF TypeOK, memVars, IoSteps, luaVars, Codes
  <2> QED
    BY <1>1, <1>2, <2>1, CycleGoesOn DEF Cycle, luaVars
<1>3. CASE ~(rdResult' = "bad" /\ UNCHANGED memVars)
  <2> DEFINE old == img["rd"].data
             freed == Release(heap, old)
  <2>1. PICK v \in SrvValues : \E b \in Allocations(freed, v) :
          /\ fault' = fault \cup BadFree(old)
          /\ SetMemory([img EXCEPT !["rd"] = [len |-> v, data |-> b]], initVal,
                       Store(freed, b, v))
    BY <1>3, Zenon DEF ReadInputs
  <2>2. PICK b \in Allocations(freed, v) :
          /\ fault' = fault \cup BadFree(old)
          /\ SetMemory([img EXCEPT !["rd"] = [len |-> v, data |-> b]], initVal,
                       Store(freed, b, v))
    BY <2>1, Zenon
  <2>3. ~Locked /\ rdResult' = "good"
    BY <1>3 DEF ReadInputs
  <2>4. lua = "idle" /\ Whole(heap, img["wr"]) /\ Whole(heap, img["rd"])
        /\ Apart(img["wr"].data, old)
    BY <1>1, <2>3 DEF Locked, TypeOK, LuaSteps, ImageInv
  <2>5. img \in Images /\ heap \in Heaps /\ v \in Contents /\ img["wr"].data \in Pointer
        /\ old \in Pointer
    BY SentinelsAssumption DEF TypeOK, Images, Strings, Heaps, Pointer, Contents, Nodes
  <2>6. fault' = fault
    BY <2>2, <2>4 DEF BadFree, Whole, Live
  <2> HIDE DEF old
  <2>7. freed \in Heaps /\ Whole(freed, img["wr"])
    BY <2>4, <2>5, ReleaseFacts DEF Whole
  <2> HIDE DEF freed
  <2> DEFINE s == [len |-> v, data |-> b]
             h == Store(freed, b, v)
  <2>8. h \in Heaps /\ b \in Pointer /\ ValueAt(h, b) = v /\ Live(h, b)
        /\ Whole(h, img["wr"]) /\ Apart(img["wr"].data, b)
    BY <2>5, <2>7, StoreFacts DEF Whole
  <2>9. s \in Strings /\ s.len = v /\ s.data = b
    BY <2>5, <2>8 DEF Strings
  <2>10. SetMemory([img EXCEPT !["rd"] = s], initVal, h)
    BY <2>2
  <2> HIDE DEF s, h
  <2>11. Whole(h, s) /\ Apart(s.data, img["wr"].data)
    BY <2>8, <2>9 DEF Whole, Apart
  <2>12. /\ img' \in Images /\ img'["wr"] = img["wr"] /\ initVal' = initVal
         /\ heap' \in Heaps /\ leaked' \in BOOLEAN
         /\ Whole(heap', img'["rd"]) /\ Whole(heap', img'["wr"])
         /\ Apart(img'["wr"].data, img'["rd"].data)
    BY <2>8, <2>9, <2>10, <2>11, ImageReplaced DEF Nodes
  <2>13. TypeOK'
    BY <1>1, <2>3, <2>6, <2>12
    DEF TypeOK, IoSteps, luaVars, Codes, Images, Strings, Heaps, Pointer
  <2>14. WhenInv' /\ MemorySafe'
    BY <1>1, <2>6 DEF WhenInv, MemorySafe, luaVars, Cycle
  <2>15. ImageInv'
    BY <1>1, <2>4, <2>12 DEF ImageInv, luaVars
  <2>16. InitialInv' /\ AssignedInv'
    BY <1>1 DEF InitialInv, AssignedInv
  <2>17. OutputsInv'
    BY <1>1, <2>12 DEF OutputsInv, luaVars, Cycle
  <2> QED
    BY <2>13, <2>14, <2>15, <2>16, <2>17
<1> QED
  BY <1>2, <1>3

LEMMA Clears ==
  ASSUME Gated, IInv, ClearOutputs
  PROVE  IInv'
<1> USE DEF IInv
<1> DEFINE old == img["wr"].data
           s   == IF old = Null THEN img["wr"] ELSE Empty
           h   == Release(heap, old)
<1>1. /\ lua = "idle" /\ io \in Cycle /\ arg' \in LuaValues /\ lua' = "copy"
      /\ fault' = fault \cup BadFree(old)
      /\ SetMemory([img EXCEPT !["wr"] = s], initVal, h)
      /\ UNCHANGED <<io, todo, tmp, results, cyclic, srvOut, outputs>>
  BY DEF ClearOutputs, MayCall, WhenInv
<1>2. Whole(heap, img["wr"]) /\ Whole(heap, img["rd"]) /\ Apart(old, img["rd"].data)
  BY <1>1 DEF ImageInv, Cycle
<1>3. img \in Images /\ img["wr"] \in Strings /\ img["rd"].data \in Pointer /\ old \in Pointer
      /\ heap \in Heaps
  BY DEF TypeOK, Images, Strings, Heaps, Pointer, Nodes
<1>4. fault' = fault
  BY <1>1, <1>2 DEF BadFree, Whole, Live
<1>5. s = Empty
  <2>1. CASE old = Null
    <3>1. img["wr"].len = Zero
      BY <1>2, <2>1 DEF Whole, ValueAt
    <3> QED
      BY <1>3, <2>1, <3>1 DEF Strings, Empty
  <2> QED
    BY <2>1
<1>6. s \in Strings /\ s.data = Null /\ s.len = Zero
  BY <1>5 DEF Empty, Strings, Contents, Pointer
<1> HIDE DEF s, old
<1>7. h \in Heaps /\ Whole(h, img["rd"])
  BY <1>2, <1>3, ReleaseFacts DEF Whole, Apart
<1> HIDE DEF h
<1>8. Whole(h, s) /\ Apart(s.data, img["rd"].data)
  BY <1>6 DEF Whole, ValueAt, Live, Apart
<1>9. /\ img' \in Images /\ img'["wr"] = s /\ initVal' = initVal
      /\ heap' \in Heaps /\ leaked' \in BOOLEAN
      /\ Whole(heap', img'["rd"]) /\ Apart(img'["wr"].data, img'["rd"].data)
  BY <1>1, <1>6, <1>7, <1>8, ImageReplaced DEF Nodes
<1>10. TypeOK'
  BY <1>1, <1>4, <1>9, SentinelsAssumption
  DEF TypeOK, LuaSteps, results, Images, Strings, Heaps, Pointer, Contents
<1>11. WhenInv' /\ MemorySafe'
  BY <1>1, <1>4 DEF WhenInv, MemorySafe
<1>12. ImageInv'
  BY <1>1, <1>5, <1>9 DEF ImageInv
<1>13. InitialInv' /\ AssignedInv' /\ OutputsInv'
  BY <1>1 DEF InitialInv, AssignedInv, OutputsInv, Cycle
<1> QED
  BY <1>10, <1>11, <1>12, <1>13

LEMMA Stores ==
  ASSUME IInv, StoreOutputs
  PROVE  IInv'
<1> USE DEF IInv
<1>1. /\ lua = "copy" /\ outputs' = arg /\ lua' = "idle" /\ arg' = Zero
      /\ UNCHANGED <<io, todo, tmp, results, cyclic, srvOut, fault>>
  BY DEF StoreOutputs
<1>2. PICK b \in Allocations(heap, arg) :
        SetMemory([img EXCEPT !["wr"] = [len |-> arg, data |-> b]], initVal,
                  Store(heap, b, arg))
  BY Zenon DEF StoreOutputs
<1> DEFINE s == [len |-> arg, data |-> b]
           h == Store(heap, b, arg)
<1>3. io \in Cycle \cup {"offline"} /\ Whole(heap, img["rd"])
  BY <1>1 DEF WhenInv, ImageInv, Cycle
<1>4. img \in Images /\ heap \in Heaps /\ arg \in Contents /\ img["rd"].data \in Pointer
  BY DEF TypeOK, Images, Strings, Heaps, Pointer, Nodes
<1>5. h \in Heaps /\ b \in Pointer /\ ValueAt(h, b) = arg /\ Live(h, b)
      /\ Whole(h, img["rd"]) /\ Apart(img["rd"].data, b)
  BY <1>3, <1>4, StoreFacts DEF Whole
<1>6. s \in Strings /\ s.len = arg /\ s.data = b
  BY <1>4, <1>5 DEF Strings
<1>7. SetMemory([img EXCEPT !["wr"] = s], initVal, h)
  BY <1>2
<1> HIDE DEF s, h
<1>8. Whole(h, s) /\ Apart(s.data, img["rd"].data)
  BY <1>5, <1>6 DEF Whole, Apart
<1>9. /\ img' \in Images /\ img'["wr"] = s /\ initVal' = initVal
      /\ heap' \in Heaps /\ leaked' \in BOOLEAN
      /\ Whole(heap', img'["wr"]) /\ Whole(heap', img'["rd"])
      /\ Apart(img'["wr"].data, img'["rd"].data)
  BY <1>5, <1>6, <1>7, <1>8, ImageReplaced DEF Nodes
<1>10. TypeOK'
  BY <1>1, <1>4, <1>9
  DEF TypeOK, LuaSteps, results, Images, Strings, Heaps, Pointer, Contents
<1>11. WhenInv' /\ MemorySafe'
  BY <1>1 DEF WhenInv, MemorySafe
<1>12. ImageInv'
  BY <1>1, <1>9 DEF ImageInv
<1>13. InitialInv' /\ AssignedInv'
  BY <1>1, <1>3 DEF InitialInv, AssignedInv, Cycle
<1>14. OutputsInv'
  BY <1>1, <1>3, <1>6, <1>9 DEF OutputsInv, Cycle
<1> QED
  BY <1>10, <1>11, <1>12, <1>13, <1>14

-----------------------------------------------------------------------------
(* Theorems                                                                *)

(* The strengthened invariant holds in every state, whatever the two threads do, if
   Lua uses the image only while cyclic I/O runs. *)
THEOREM Invariance == Gated => (Spec => []IInv)
<1> SUFFICES ASSUME Gated PROVE Spec => []IInv
  OBVIOUS
<1>1. IInv /\ [Next]_vars => IInv'
  <2> SUFFICES ASSUME IInv, [Next]_vars PROVE IInv'
    OBVIOUS
  <2>1. CASE Reconnect
    BY <2>1, Reconnects
  <2>2. CASE ResolveNode("wr", "resolveWr", "resolveRd")
    BY <2>2, Resolves DEF Nodes
  <2>3. CASE ResolveNode("rd", "resolveRd", "assign")
    BY <2>3, Resolves DEF Nodes
  <2>4. CASE \E n \in Nodes, w \in Words : AssignWord(n, w)
    BY <2>4, Assigns
  <2>5. CASE CheckOutputs \/ SendOutputs \/ EndCycle
    BY <2>5, Cycles
  <2>6. CASE CopyOutputs
    BY <2>6, Copies
  <2>7. CASE ReadInputs
    BY <2>7, Reads
  <2>8. CASE ClearOutputs
    BY <2>8, Clears
  <2>9. CASE \E n \in Nodes : CopyImage(n)
    BY <2>9, CopiesImage
  <2>10. CASE StoreOutputs
    BY <2>10, Stores
  <2>11. CASE UNCHANGED vars
    BY <2>11 DEF vars, memVars, results, luaVars, IInv, TypeOK, WhenInv, MemorySafe, ImageInv,
                 InitialInv, AssignedInv, OutputsInv
  <2> QED
    BY <2>1, <2>2, <2>3, <2>4, <2>5, <2>6, <2>7, <2>8, <2>9, <2>10, <2>11
    DEF Next, IoStep, LuaCalls
<1> QED
  BY <1>1, InitHolds, PTL DEF Spec

(* Every variable of the process image stays in its set. *)
THEOREM TypeCorrect == Gated => (Spec => []TypeOK)
<1>1. IInv => TypeOK
  BY DEF IInv
<1> QED
  BY <1>1, Invariance, PTL

(* No buffer of _varWr or _varRd is freed twice, and none is copied for the server or
   for Lua after it was freed. *)
THEOREM MemoryUsedSafely == Gated => (Spec => []MemorySafe)
<1>1. IInv => MemorySafe
  BY DEF IInv
<1> QED
  BY <1>1, Invariance, PTL

(* Between Lua's calls the outputs are what was last put there, connected or not, until
   case 20 has replaced them. *)
THEOREM OutputsHeld == Gated => (Spec => []ImageHoldsOutputs)
<1>1. IInv => ImageHoldsOutputs
  <2> SUFFICES ASSUME IInv, lua # "copy", ~HalfAssigned("wr")
               PROVE  Content(img["wr"]) = outputs
    BY DEF ImageHoldsOutputs
  <2>1. lua = "idle" /\ heap \in Heaps /\ img["wr"] \in Strings
    BY DEF IInv, TypeOK, LuaSteps, Heaps, Strings, Pointer, Nodes
  <2>2. CASE io # "assign"
    BY <2>1, <2>2, WholeContent DEF IInv, ImageInv, OutputsInv
  <2>3. CASE io = "assign" /\ \A w \in Words : <<"wr", w>> \in todo
    BY <2>1, <2>3, WholeContent DEF IInv, OutputsInv
  <2>4. CASE io = "assign" /\ \A w \in Words : <<"wr", w>> \notin todo
    <3>1. img["wr"].len = ValueAt(heap, initVal["wr"]) /\ img["wr"].data = initVal["wr"]
          /\ Live(heap, initVal["wr"]) /\ outputs = ValueAt(heap, initVal["wr"])
      BY <2>4 DEF IInv, AssignedInv, InitialInv, OutputsInv, Nodes, Words
    <3> QED
      BY <2>1, <3>1, WholeContent DEF Whole
  <2> QED
    BY <2>2, <2>3, <2>4 DEF HalfAssigned
<1> QED
  BY <1>1, Invariance, PTL

(* Only a cycle that SetOutputs overlaps goes without the write of outputs in force. *)
THEOREM WriteMade == Gated => (Spec => WriteSkippedOnlyDuringSet)
<1> DEFINE Made == io = "check" /\ io' = "read" => outputs = Zero \/ lua = "copy"
<1>1. ASSUME IInv, [Next]_vars PROVE Made
  <2> SUFFICES ASSUME io = "check", io' = "read" PROVE outputs = Zero \/ lua = "copy"
    OBVIOUS
  <2>1. CheckOutputs
    BY <1>1 DEF Next, IoStep, LuaCalls, vars, Reconnect, ResolveNode, AssignWord, CopyOutputs,
       SendOutputs, ReadInputs, EndCycle, ClearOutputs, CopyImage, StoreOutputs
  <2>2. img["wr"].len = Zero
    BY <2>1 DEF CheckOutputs
  <2>3. lua = "copy" \/ img["wr"].len = outputs
    BY <1>1 DEF IInv, TypeOK, LuaSteps, OutputsInv, Cycle
  <2> QED
    BY <2>2, <2>3
<1>2. IInv /\ [Next]_vars => [Made]_vars
  BY <1>1
<1> QED
  BY <1>2, Invariance, PTL DEF Spec, WriteSkippedOnlyDuringSet
=============================================================================
