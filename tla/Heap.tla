--------------------------------- MODULE Heap ---------------------------------
(***************************************************************************)
(* The objects of the VM and their collection (src/src/slp_gc.c, the       *)
(* intern table and the constructors in src/src/slp_vm.c, the callables of *)
(* src/src/slp_embed.c).                                                   *)
(*                                                                         *)
(* Values live on the operand stack, in objects, in call frames and in the *)
(* local variables of natives; only the last are no roots.  A collection   *)
(* starts between two instructions of a dispatch loop, also of one that a  *)
(* native waits for.  The host is the outermost native.                    *)
(***************************************************************************)
EXTENDS Integers, FiniteSets, SequencesExt

CONSTANTS
  Objects,      \* addresses of objects
  Strings,      \* those of strings,
  Closures,     \* of closures,
  Text,         \* the text of each string
  Globals,      \* vm->globals
  None,
  MaxStack, MaxFrames, MaxNatives, MaxCallables,
  MaxElements,  \* elements in a container
  MaxHeld,      \* local variables of a native
  Careless      \* whether a native may call back with a value it still needs
                \* in a local variable alone

ASSUME HeapAssumption ==
  /\ Globals \in Objects \ (Strings \cup Closures)
  /\ Strings \cup Closures \subseteq Objects
  /\ Strings \cap Closures = {}
  /\ None \notin Objects
  /\ {MaxStack, MaxFrames, MaxNatives, MaxCallables, MaxElements, MaxHeld}
       \subseteq Nat
  /\ Careless \in BOOLEAN

VARIABLES
  objects,      \* vm->objects
  elements,     \* what each object points to and blacken_object marks
  suspended,    \* coroutine_stack of each closure
  stack,        \* the operand stack
  frames,       \* the call frames
  natives,      \* natives in progress, the host first; an instruction that
                \* calls back is one too
  callables,    \* vm->callables
  interned,     \* vm->interned, the strings in it
  collector,    \* "off", or the phase of slp_gc_collect
  marked,       \* objects with is_marked
  gray          \* vm->gc_gray_stack; its order is left out

Values == Objects \ {Globals}

graph == <<elements, suspended>>
roots == <<stack, frames, natives, callables>>
marks == <<collector, marked, gray>>
vars == <<objects, graph, roots, interned, marks>>

(* base: the height of the stack when the frame was entered.               *)
Frame == [closure : Closures, base : Nat]

(* held: what its local variables hold; args, base: the heights of the     *)
(* stack below and above its arguments; depth: the frames below it.        *)
Native == [held : SUBSET Values, args : Nat, base : Nat, depth : Nat]

TypeOK ==
  /\ objects \subseteq Objects
  /\ elements \in [Objects -> SUBSET Values]
  /\ suspended \in [Closures -> Seq(Values)]
  /\ stack \in Seq(Values)
  /\ frames \in Seq(Frame)
  /\ natives \in Seq(Native)
  /\ callables \in Seq(Closures)
  /\ interned \subseteq Strings
  /\ collector \in {"off", "trace", "rebuild"}
  /\ marked \subseteq Objects
  /\ gray \subseteq marked

-----------------------------------------------------------------------------
(* What blacken_object marks; a variant that forgets coroutines.           *)
ChildrenInPlace(o) == elements[o]
Children(o) ==
  elements[o] \cup (IF o \in Closures THEN ToSet(suspended[o]) ELSE {})

(* slp_embed_mark_roots, and all that mark_roots marks.                    *)
CallableRoots == ToSet(callables)
Roots ==
  ToSet(stack) \cup {frames[i].closure : i \in DOMAIN frames}
    \cup {Globals} \cup CallableRoots

Closed(S) == \A o \in S : Children(o) \subseteq S

(* The objects that can be reached from the roots.                         *)
Reachable ==
  {o \in Objects : \A S \in SUBSET Objects :
                     Roots \subseteq S /\ Closed(S) => o \in S}

-----------------------------------------------------------------------------
(* The code that executes: an instruction of the running frame, or the     *)
(* native (or host) whose callbacks have all returned.                     *)
InNative == Len(frames) = Last(natives).depth

Executes == collector = "off"

Base == IF InNative THEN Last(natives).base ELSE Last(frames).base

(* The values the code has at hand.  The table of globals is no value.     *)
Above(h) == ToSet(SubSeq(stack, h + 1, Len(stack)))
Hands ==
  IF InNative
  THEN Above(Last(natives).args) \cup Last(natives).held
         \cup ToSet(callables)
  ELSE Above(Base) \cup {Last(frames).closure}

(* The code gets o: on the stack, or in a local variable.                  *)
Obtain(o) ==
  /\ UNCHANGED <<frames, callables>>
  /\ IF InNative
     THEN /\ Cardinality(Last(natives).held \cup {o}) <= MaxHeld
          /\ natives' = [natives EXCEPT ![Len(natives)].held = @ \cup {o}]
          /\ UNCHANGED stack
     ELSE /\ Len(stack) < MaxStack
          /\ stack' = Append(stack, o)
          /\ UNCHANGED natives

(* A new object o (track_object).                                          *)
Link(o) ==
  /\ o \notin objects
  /\ objects' = objects \cup {o}
  /\ Obtain(o)
  /\ UNCHANGED graph

New(o) == /\ Executes
          /\ o \notin Strings
          /\ Link(o)
          /\ UNCHANGED <<interned, marks>>

(* A new object that holds what it is made of: a pair, a cell, a tainted   *)
(* value, a closure of a function.                                         *)
NewHolding(o, v) ==
  /\ Executes
  /\ o \notin Strings \cup objects /\ v \in Hands
  /\ objects' = objects \cup {o}
  /\ elements' = [elements EXCEPT ![o] = {v}]
  /\ Obtain(o)
  /\ UNCHANGED <<suspended, interned, marks>>

(* slp_vm_intern_string.                                                   *)
InternNew(s) == /\ Executes
                /\ \A x \in interned : Text[x] # Text[s]
                /\ Link(s)
                /\ interned' = interned \cup {s}
                /\ UNCHANGED <<marks>>

InternFound(s) == /\ Executes
                  /\ s \in interned
                  /\ Obtain(s)
                  /\ UNCHANGED <<objects, graph, interned, marks>>

(* A value is read from a variable, an element, a constant.                *)
Load(o) == /\ Executes
           /\ o \in Hands \cup UNION {elements[x] : x \in Hands \cup {Globals}}
           /\ Obtain(o)
           /\ UNCHANGED <<objects, graph, interned, marks>>

Push(o) == /\ Executes /\ InNative
           /\ o \in Hands
           /\ Len(stack) < MaxStack
           /\ stack' = Append(stack, o)
           /\ UNCHANGED <<objects, graph, frames, natives, callables, interned,
                          marks>>

Pop == /\ Executes
       /\ Len(stack) > Base
       /\ stack' = Front(stack)
       /\ UNCHANGED <<objects, graph, frames, natives, callables, interned,
                      marks>>

(* What holds other values: arrays, hashes, the table of globals, closures *)
(* with their scopes.                                                      *)
Containers == Objects \ Strings

Store(c, v) ==
  /\ Executes
  /\ c \in Containers \cap (Hands \cup {Globals}) /\ v \in Hands
  /\ Cardinality(elements[c] \cup {v}) <= MaxElements
  /\ elements' = [elements EXCEPT ![c] = @ \cup {v}]
  /\ UNCHANGED <<objects, suspended, roots, interned, marks>>

RemoveElement(c, v) ==
  /\ Executes
  /\ c \in Containers \cap (Hands \cup {Globals})
  /\ v \in elements[c]
  /\ elements' = [elements EXCEPT ![c] = @ \ {v}]
  /\ Obtain(v)
  /\ UNCHANGED <<objects, suspended, interned, marks>>

-----------------------------------------------------------------------------
(* A frame for closure c with its arguments at height h, or, when c is     *)
(* suspended, with the operands it had.                                    *)
Enter(c, h, arguments) ==
  /\ Len(frames) < MaxFrames
  /\ frames' = Append(frames, [closure |-> c, base |-> h])
  /\ stack' = SubSeq(stack, 1, h)
                \o (IF suspended[c] = << >> THEN arguments ELSE suspended[c])
  /\ Len(stack') <= MaxStack
  /\ suspended' = [suspended EXCEPT ![c] = << >>]
  /\ UNCHANGED <<objects, elements, callables, interned, marks>>

Call(n) ==
  LET h == Len(stack) - n - 1 IN
  /\ Executes /\ ~InNative
  /\ h >= Base
  /\ stack[h + 1] \in Closures
  /\ Enter(stack[h + 1], h, SubSeq(stack, h + 2, Len(stack)))
  /\ UNCHANGED natives

(* The running frame is dropped with its operands; its caller gets o, or   *)
(* None for what is no object: $null, a number, the result of an abort.    *)
Result(o) == IF o = None THEN << >> ELSE <<o>>

Leave(o) ==
  LET h == Last(frames).base IN
  /\ Executes /\ ~InNative
  /\ o \in {None} \cup Above(h)
  /\ frames' = Front(frames)
  /\ IF Len(frames) - 1 = Last(natives).depth
     THEN /\ stack' = SubSeq(stack, 1, h)
          /\ Cardinality(Last(natives).held \cup ToSet(Result(o))) <= MaxHeld
          /\ natives' = [natives EXCEPT
                           ![Len(natives)].held = @ \cup ToSet(Result(o))]
     ELSE /\ stack' = SubSeq(stack, 1, h) \o Result(o)
          /\ UNCHANGED natives
  /\ UNCHANGED <<objects, elements, callables, interned, marks>>

Return(o) == Leave(o) /\ UNCHANGED suspended

(* OP_YIELD keeps the operands below the value in the closure.             *)
Yield(o) ==
  /\ Leave(o)
  /\ suspended' = [suspended EXCEPT ![Last(frames).closure] =
                     SubSeq(stack, Last(frames).base + 1,
                            Len(stack) - Len(Result(o)))]
  /\ o # None => o = Last(stack)

CallNative(n) ==
  /\ Executes /\ ~InNative
  /\ Len(natives) < MaxNatives
  /\ Len(stack) - n >= Base
  /\ natives' = Append(natives, [held |-> {}, args |-> Len(stack) - n,
                                 base |-> Len(stack), depth |-> Len(frames)])
  /\ UNCHANGED <<objects, graph, stack, frames, callables, interned, marks>>

NativeReturns(o) ==
  LET h == Last(natives).args IN
  /\ Executes /\ InNative
  /\ Len(natives) > 1
  /\ o \in Hands \cup {None} /\ h + Len(Result(o)) <= MaxStack
  /\ natives' = Front(natives)
  /\ stack' = SubSeq(stack, 1, h) \o Result(o)
  /\ UNCHANGED <<objects, graph, frames, callables, interned, marks>>

(* slp_vm_call: the native keeps some of the values it holds for after the *)
(* call; with care they are on the stack too.                              *)
CallBack(c, arguments, kept) ==
  /\ Executes /\ InNative
  /\ c \in Hands \cap Closures
  /\ ToSet(arguments) \subseteq Hands
  /\ kept \subseteq Last(natives).held
  /\ Careless \/ kept \subseteq ToSet(stack)
  /\ natives' = [natives EXCEPT ![Len(natives)].held = kept]
  /\ Enter(c, Len(stack), arguments)

(* slp_callable_acquire, slp_callable_release.                             *)
Acquire(c) ==
  /\ Executes /\ InNative
  /\ c \in Hands \cap Closures
  /\ Len(callables) < MaxCallables
  /\ callables' = Append(callables, c)
  /\ UNCHANGED <<objects, graph, stack, frames, natives, interned, marks>>

Release(i) ==
  /\ Executes /\ InNative
  /\ i \in DOMAIN callables
  /\ callables' = RemoveAt(callables, i)
  /\ UNCHANGED <<objects, graph, stack, frames, natives, interned, marks>>

-----------------------------------------------------------------------------
(* slp_gc_mark_obj pushes what is not marked yet.                          *)
Unmarked(S) == S \ marked

(* slp_gc_collect, between two instructions.  Sizes are left out: any      *)
(* object may be the one that exceeds the threshold.                       *)
MarkRoots ==
  /\ collector = "off" /\ ~InNative
  /\ collector' = "trace"
  /\ marked' = marked \cup Roots
  /\ gray' = Unmarked(Roots)
  /\ UNCHANGED <<objects, graph, roots, interned>>

(* A variant that does not look at is_marked.                              *)
BlackenAgain(o) ==
  /\ collector = "trace"
  /\ o \in gray
  /\ marked' = marked \cup Children(o)
  /\ gray' = (gray \ {o}) \cup Children(o)
  /\ UNCHANGED <<objects, graph, roots, interned, collector>>

Blacken(o) ==
  /\ collector = "trace"
  /\ o \in gray
  /\ marked' = marked \cup Children(o)
  /\ gray' = (gray \ {o}) \cup Unmarked(Children(o))
  /\ UNCHANGED <<objects, graph, roots, interned, collector>>

(* An object is freed with what it points to (object_free_memory).         *)
Free(F) ==
  /\ objects' = objects \ F
  /\ elements' = [o \in Objects |-> IF o \in F THEN {} ELSE elements[o]]
  /\ suspended' = [c \in Closures |-> IF c \in F THEN << >> ELSE suspended[c]]

(* A variant that leaves the marks set.                                    *)
SweepKeepsMarks ==
  /\ collector = "trace" /\ gray = {}
  /\ collector' = "rebuild"
  /\ Free(objects \ marked)
  /\ UNCHANGED <<roots, interned, marked, gray>>

Sweep ==
  /\ collector = "trace" /\ gray = {}
  /\ collector' = "rebuild"
  /\ Free(objects \ marked)
  /\ marked' = {}
  /\ UNCHANGED <<roots, interned, gray>>

(* Variants: every object is taken for a string; the table stays as it is. *)
RebuildOfAll ==
  /\ collector = "rebuild"
  /\ collector' = "off"
  /\ interned' = objects
  /\ UNCHANGED <<objects, graph, roots, marked, gray>>

RebuildForgotten ==
  /\ collector = "rebuild"
  /\ collector' = "off"
  /\ UNCHANGED <<objects, graph, roots, interned, marked, gray>>

(* rebuild_interned.                                                       *)
Rebuild ==
  /\ collector = "rebuild"
  /\ collector' = "off"
  /\ interned' = objects \cap Strings
  /\ UNCHANGED <<objects, graph, roots, marked, gray>>

-----------------------------------------------------------------------------
(* The host frees the VM and starts another: slp_vm_free, which releases   *)
(* the callables first, slp_gc_free, slp_vm_new.  No script is running.    *)
Host == [held |-> {}, args |-> 0, base |-> 0, depth |-> 0]
ReleaseAll == callables' = << >>
FreeObjects ==
  /\ elements' = [o \in Objects |-> {}]
  /\ suspended' = [c \in Closures |-> << >>]
NewVm ==
  /\ objects' = {Globals} /\ interned' = {}
  /\ stack' = << >> /\ natives' = <<Host>>
Restart ==
  /\ Executes /\ Len(natives) = 1 /\ frames = << >>
  /\ ReleaseAll /\ FreeObjects /\ NewVm
  /\ UNCHANGED <<frames, marks>>

Collect == MarkRoots \/ (\E o \in gray : Blacken(o)) \/ Sweep \/ Rebuild
-----------------------------------------------------------------------------
(* A VM with its table of globals; the host is about to make a closure of  *)
(* its script.                                                             *)
Init ==
  /\ objects = {Globals}
  /\ elements = [o \in Objects |-> {}]
  /\ suspended = [c \in Closures |-> << >>]
  /\ stack = << >>
  /\ frames = << >>
  /\ natives = <<Host>>
  /\ callables = << >>
  /\ interned = {}
  /\ collector = "off" /\ marked = {} /\ gray = {}

Execute ==
  \/ Pop
  \/ \E o \in Values :
       \/ New(o) \/ Load(o) \/ Push(o) \/ Acquire(o)
       \/ \E c \in Containers : Store(c, o) \/ RemoveElement(c, o) \/ NewHolding(c, o)
  \/ \E o \in Values \cup {None} : Return(o) \/ Yield(o) \/ NativeReturns(o)
  \/ \E s \in Strings : InternNew(s) \/ InternFound(s)
  \/ \E n \in 0..MaxStack : Call(n) \/ CallNative(n)
  \/ \E c \in Closures, o \in Values, kept \in SUBSET Last(natives).held :
       CallBack(c, << >>, kept) \/ CallBack(c, <<o>>, kept)
  \/ \E i \in DOMAIN callables : Release(i)

Next == Execute \/ Collect \/ Restart

(* The collector is a loop in C: it goes on until it is done.              *)
Spec == Init /\ [][Next]_vars /\ WF_vars(Collect)
-----------------------------------------------------------------------------
InUse == Roots \cup UNION {natives[i].held : i \in DOMAIN natives}

(* No value in use is freed, and no object that was not freed points to    *)
(* one that was (slp_gc_collect): the collector is the only one that frees *)
(* and starts only between instructions, whatever natives, coroutines and  *)
(* callables are about.                                                    *)
NoDangling ==
  /\ InUse \subseteq objects
  /\ \A o \in objects : Children(o) \subseteq objects

(* The intern table holds the strings that are there, each text once,      *)
(* although it owns none of them (rebuild_interned): equal strings are the *)
(* same object.                                                            *)
InternedExact ==
  collector # "rebuild" =>
    /\ interned = objects \cap Strings
    /\ \A s, t \in interned : Text[s] = Text[t] => s = t

(* A collection frees what cannot be reached, all of it.                   *)
FreesGarbage == [][Sweep => objects' = Reachable]_vars

(* A collection that was started ends, cycles or not.                      *)
CollectionEnds == collector # "off" ~> collector = "off"

(* "every live value is reachable from a root (stack/frames/globals)"      *)
(* (slp_vm.c:4289), at a safepoint.                                        *)
SafepointRooted == [][MarkRoots => InUse \subseteq Reachable]_vars
=============================================================================
