# A verification development of the Sleep VM (slp)

TLA+ models of the Sleep language implementation slp: the virtual machine
(`src/src/slp_vm.c`), the front end that produces its code, the values and
containers it works on, and the collector below it.  They are model-checked
with TLC and, where listed, proved with TLAPS.  Paths below are relative to the
repository's root, `src/` here.

The VM is one C program without threads.  What makes it hard is that many
pieces of control share a few flat arrays.  Call frames, operand stack and try
handlers belong at the same time to the dispatch loop, to natives that call
closures back through a nested dispatch loop, to coroutines that are cut out of
the arrays and put back somewhere else, and to continuations that replace all
of them.  The containers are edited while something else iterates over them,
shows a window on them, or waits for a policy closure that edits them again.
The front end says most things twice: two tables of precedences, two
implementations of each operator, code and its disassembly.  The models are
about those situations.

## 1. Inventory

| component | state | operations | hard behaviour | what makes it correct |
|---|---|---|---|---|
| VM control (`slp_vm.c`, `slp_vm.h`) | `frames`, `stack_top`, `try_handlers`, `abort_requested`, `flow_exit_requested`, the `coroutine_*` fields of closures, continuation objects, `target_frame_count` of each loop | call, return, inline return, yield, resume, callcc, throw, try, assert, exit, `slp_vm_call(_value)`, `slp_vm_interpret` | coroutines resumed at another height; handlers of dropped frames; callbacks that throw, yield or exit; every array at its limit | activations never overlap; a handler belongs to a live try at its own height; a throw reaches the innermost try; a native finds what it left |
| Scopes, cells, watches (`slp_vm.c` 2164-2515) | scope hashes of closures and frames, arrays of local scopes, scalar cells | local, this, global, watch, pushl, popl, let, lambda, references | which scope a name is found in; cells shared by reference; scopes shared by inline functions, cut and restored by yields and throws | variables share a value exactly where the script passed them by reference |
| Compiler (`slp_compiler.c`) | chunk, jumps to patch, `try_depth`, `loop_try_depth`, `loop_start` | one case of `compile_node` per statement and expression | jumps patched later, out of loops and tries, with operands and handlers on the stack; operands evaluated in an order and left in another | compiled code does what the text says next |
| Expressions (`slp_vm.c` dispatch loop) | operand stack, variables | arithmetic, predicates, indices, assignments, calls | int, long and double mixed; two copies of each operator; containers that come to be when they are indexed | the value and effects of the tree, the stack left as it was |
| Lexer, parser, AST (`slp_lexer.c`, `slp_parser.c`, `slp_ast.c`) | position, current and previous token | one function per production; `format_node` | precedences, words that are operators or not, statements that end at a line | the tree is grouped as the precedences say |
| slp_fmt (`tools/slp_fmt.c`) | a file | read, write back | run on its own output; prints with a precedence table of its own | the same program, soon unchanged |
| Bytecode files, disassembler (`slp_chunk.c`, `slp_bytecode.c`, `slp_disasm.c`) | bytes, constants | encode, save, load, walk | operands of several widths, a second table of them in the disassembler | what is loaded is what was saved |
| foreach (`OP_FOREACH_NEXT`, `native_remove`) | `foreach_*` of the frame, collection and iterator on the stack | start, next, remove, break | the collection changes in the body; nested loops share the frame's fields; remove() in a callee; generators | each element once; remove() removes the element visited |
| Hash table (`slp_value.c`) | entries, count, tombstones, sequence numbers | set, get, delete, contains, ordered index, clear, copy | tombstones, growth, full table, order by rank | an ordered map |
| Policies of ordered hashes (`slp_vm.c` 730-830) | hash, policy closures | miss and removal policy around set and get | the policy is a script that changes the same hash | the map a script is promised; a cache keeps its size |
| Arrays and views (`slp_value.c`, `stdlib.c`) | elements, `mutation_version`, `view_*` | insert, remove, set, sublist, sort, splice, functions of two arrays | views of views; source changed behind a view; a view edited by a function that reads its source | a view is a slice of its source until that is edited otherwise, and then knows (it does not always: section 5) |
| Garbage collector (`slp_gc.c`), interned strings (`slp_vm.c` 412-481) | object list, marks, gray stack, intern table, thresholds | mark, trace, sweep, rebuild; intern; init and free of a VM | natives' locals are no roots; collection only at safepoints, also of nested loops | nothing reachable is freed; no dangling pointer in the intern table |
| Embedding API (`slp_embed.c`) | rooted values, argument readers | acquire, release, call, read arguments, unpack | release and call in a callback; a reader after a value of another type | a rooted value is alive; each argument is read in its turn |
| Standard library (`extensions/stdlib/stdlib.c`) | I/O handles, semaphores, iterators, regex states | 300 natives | callbacks in map, sort, filter | per family |
| Regular expressions, platform layer, slp, slpd, console | operating system handles | wrappers, command lines | - | - |

Interactions.  The parser's tree is all the compiler and the formatter see, the
compiler's output all the dispatch loop executes: what VmControl assumes of
code (no operand popped below the statement's, one OP_POP_HANDLER per try left)
CompiledControl shows for statements, and Expressions for expressions.  Natives
are called by the loop and call it back (`slp_vm_call`), on the same arrays; a
policy of a hash is called in the middle of an instruction in the same way.
foreach keeps its state in frames and on the stack.  Containers carry version
numbers that foreach and views read.  The collector runs at a safepoint in the
dispatch loop, so also while natives wait for a callback.

The hazards, each at its line with the properties that would catch it, are in
`PROJECT.json`.

## 2. Plan

Done, in this order:

1. `VmContext`, `VmControl`: the control of the VM, with its proofs.
2. `CompiledControl`: the compiler's jumps against the source text.
3. `Foreach`: iteration over what changes.
4. `OrderedMap`, `HashTable`: the table implements the map, with its proofs.
5. `ArrayViews`: views of views, then the library's functions on arrays, with its
   proofs.
6. `Heap`: collection and the intern table, the callables of the host, and the
   release of a VM and a new one.
7. `Parser`, `Writer`, `Formatter`: text to tree and back.
8. `Numbers`, `Expressions`, `Bytecode`, `HostValues`: expressions compiled,
   run, saved, loaded and handed to the host.
9. `Variables`, `Scopes`: what cells and scopes are for, and how they do it.
10. `HashPolicies`: the table with policies implements the map that asks.

Left, most valuable first:

* generators and suspended coroutines in `Foreach` (`src/slp_vm.c` 5684: a
  generator that throws leaves `foreach_pending` set);
* sort and map as natives that keep positions while the comparator edits the
  array they work on (`ArrayViews` has their effect alone);
* the serialized copy of a hash (`extensions/stdlib/stdlib.c` 137), which walks
  ordinals below the number of visible entries;
* `Foreach` composed with `Heap`: iterators as roots.

## 3. Modules

What each module leaves out of its part is named at its head and in section 7.

### VmContext, VmControl

A context is a triple (frames, sp, handlers).  Values are abstracted to heights:
a frame is its closure, the base of its slots, the heights of the tries it is
inside of (relative to its base) and the continuation it returns to; a handler
is `frame_count`, `stack_count` and, as history, the nesting level of its try.
A saved coroutine has its frames and handlers counted from its own height 0,
as `capture_coroutine_try_handlers` and OP_YIELD store them.

One step of `VmControl` is one instruction of the innermost dispatch loop, or
one step of the native above it.  The loops of OP_RETURN, OP_YIELD and the
unwinding that search the frames or trim the handlers are one `\E` over the
result of the search (`IsRoot`, `IsTrim`, `IsSplit`).

| action | code |
|---|---|
| `Interpret` | `slp_vm_interpret` |
| `Call`, `CallToNull`, `CallContinuation`, `CallNative` | OP_CALL by kind of callee, with every error return of `call_closure` |
| `PushOperand`, `PopOperand` | any instruction that pushes or pops |
| `EnterTry`, `LeaveTry`, `Catch`, `ThrowUncaught` | OP_PUSH_HANDLER, OP_POP_HANDLER, OP_THROW |
| `Return`, `InlineReturn`, `Yield`, `CallCC` | the opcodes of the same names |
| `AssertFails`, `Unwind` | abort and exit requests and the end of the instruction that sees them |
| `Stop` | OP_HALT, OP_DONE, an instruction that fails |
| `NativeCalls`, `NativeCallsToNull`, `NativeCallFails`, `NativeReturns` | `slp_vm_call`, `slp_vm_call_value` and the native's result |

A *guarded* native calls back through `slp_vm_call_value`, which puts the
counts and the stack top back; the others use `slp_vm_call`, which does not.

`Anchored` says that the frames belong to the C code that executes.  The
program can leave such states (a closure called by a native throws to a try
outside of the native; an error comes out of a nested loop; an inline closure
called by a native yields).  The loop then runs frames of somebody else, or
reads `frames[-1]`, and the model takes no further step: the invariants speak of
anchored states.  OP_RESUME is never emitted by the compiler and is left out.

### Variables, Scopes

`Scopes` has the tables of names to bindings, the cells, the array of local
scopes of each activation (inline functions share their caller's), the scope of
each closure and the frames of suspended coroutines.  `Reference` is
`scoped_variable_reference`: the binding becomes a cell.  The levels in which a
name is sought, in order, are `Levels`.  `mem.vars` is history and follows what
the script asked for, in the terms of `Variables`: a variable is a value and the
set of places it is known under.  It never looks at cells; `SharedAsAsked`
compares the two at every place.

| actions | code |
|---|---|
| `Load`, `Store`, `StoreSlot`, `AssignReference` | OP_LOAD_GLOBAL, OP_STORE_GLOBAL, OP_STORE_LOCAL, assignment through a reference |
| `Local`, `This`, `Global`, `BuiltinLocal`, `BuiltinThis`, `BuiltinGlobal`, `Watch` | the declarations, as bridges and as functions, and watch() |
| `Call`, `BuiltinInline`, `Return`, `InlineReturn`, `Yield`, `Throw` | activations, as far as scopes and variables go; a call resumes what yielded |
| `Pushl`, `Popl`, `Let`, `LetThis`, `Lambda`, `LambdaThis`, `SetInClosure` | the library's functions of the same names, and assignment to an index of a closure |

### CompiledControl

`Compile` builds the chunk as `compile_node` does: `emit_jump`, `patch_jump`,
`emit_loop`, the arrays `break_jumps` and `continue_jumps` with their counts,
`try_depth`, `loop_try_depth`, `loop_start`.  The chunk is then executed next to
the statements themselves: `todo` is what the source text says is left to do.
Conditions, lengths of collections and exceptions are chosen freely, alike on
both sides.  Expressions are one instruction.

### Numbers, Expressions, Bytecode, HostValues

`Numbers` has the binary and unary operators on ints, longs, doubles, strings,
booleans and null, twice as in the code: in the dispatch loop (`Binary`) and in
`evaluate_assignment_operator`, which compound assignment to a tuple of one
variable uses.  Ints and longs wrap at a width that is a constant; `Meant` says
what each operator should yield by the arithmetic law alone.

`Expressions` translates `compile_node` for every expression (`Compile...`) and
the opcodes they use (one action each).  `Eval` is the meaning of the tree as a
recursive evaluator; it is computed at the start and compared when the code has
run (`FollowsMeaning`).  The three ways a chunk leaves the compiler are in
`Bytecode`: the bytes with their pool of constants, the file they are saved to
and loaded from, and the disassembler (`DisasmChunk`), which walks from the
offsets it returns itself, with its own lists of operand sizes.
`HostValues` has the readers of arguments (`slp_args_next_...`) and
`slp_args_unpack` with its format codes, applied to what the programs pass to
the native `note`.

### Parser, Writer, Formatter

`Parser` is the recursive descent of `slp_parser.c`: one operator per
production, `ParsePrecedence` climbing through the table of prefix and infix
rules.  Tokens are what the lexer cuts; string literals carry their segments,
with the variables and alignments in them.  `Writer` is `format_node`, with its
own precedences, and `Lex`, which says what tokens the lexer reads in the pieces
it writes, where pieces that touch become another token.  `Formatter` is
slp_fmt run again and again on a file: `Read` parses, `Write` writes back.

### Foreach

The body of a loop is any sequence of loops, calls, operands, removals and
changes.  `frames` carries the frame's `foreach_*` fields, `stack` the collection and
iterator of each loop; `loops` in a frame is history: what the loop started
with and what it has visited.  `Advance` is OP_FOREACH_NEXT whole,
`RemoveCurrent` is `native_remove` whole.  `AfterBreak` says whether the script
calls remove() after a break has left a loop of its frame (section 5).

### OrderedMap, HashTable, HashPolicies

`HashTable` has the slots with key, value and sequence number, tombstones as the
code writes them (no key, value true), growth at three quarters, the three
order modes and the ordinals computed by rank.  `HashPolicies` puts the policies
around it: `SetByScript` and `GetByScript` of an ordered hash with a policy
leave a request in `pending`, the closure may then do anything with the same
hash, and `MissReturns`, `RemovalReturns` or `PolicyFails` ends the innermost
request with what `slp_vm_hash_get` and `hash_set_canonical` do next, with the
eldest key that was chosen before.  `OrderedMap` is what a script is promised,
questions (`asked`) included.  `ImplementsMap` is the refinement: the map is
read off the slots, its order off the ordinals, the questions off `pending`.
The loops of `hash_grow` and `copy` are functions of the number of slots or
ordinals done (`moved`, `copied`); a loop that skips elements, as in `keys`, is
`Only` of `Subsequences`.

### ArrayViews

`heap` is a sequence of arrays, a view after its source.  The edits
(`InsertInternal`, `RemoveInternal`, `SetInternal`) are the C functions of the
same names, with the version numbers by which a view tells that its source has
changed behind it.  The recursion of the C code, from an array to its source, is
a loop of at most as many rounds as there are older arrays; this and every other
loop is `Repeated`, a function of the number of rounds done (`Extend` is the loop
with which an assignment past the end of a window gives its source new
elements).  The actions are the functions of the library: `Sublist`,
`Push`, `Pop`, `Shift`, `Add`, `RemoveIndex`, `Clear`, `Splice`, `PutAll`,
`AddAll`, `RemoveAll`, `RetainAll`, `Concat`, `ReverseElements`, `SortElements`,
and assignment (`SetElement`).  Those that take two arrays read one while they edit
the other, which may be its view.  Sorting and
reversing (`Rearrange`) permute the window in place, then assign it to the source as
`slp_obj_array_sync_view` does (`SyncView`).  Nothing in the code keeps a script
from editing a view that is out of date, or from sorting an array that has views,
and nothing in the model does.  `MaxLength` bounds what an edit leaves, not what it
goes through: an addAll that doubles an array and a splice that shortens it again
are there.

Two variables are history.  `apart` has the views whose source was edited otherwise
than through them.  `shown` has the views of which an assignment past the end has
made elements visible that a removal left in the buffer, which the code does not
clear (`Showing`).  `ViewsMirror` speaks of the other views; without either exception TLC
finds it violated (section 5).
`StalenessLasts` says how a view in `apart` is told from one that mirrors: it is
invalid at once, and stays so but for the ways back that the property names.

### Heap

Objects are addresses; a string has a text, a closure the operands of its
suspended coroutine (`suspended`), every object but a string has `elements`, the
scope of a closure included.  Values are on the operand stack, in frames,
in callables of the host, and in the local variables of natives (`held`), which
alone are no roots.  The host is the outermost native; an instruction that calls
a closure while it has values in C variables (OP_INDEX_SET with a policy) is a
native too.

| action | code |
|---|---|
| `New`, `NewHolding`, `InternNew`, `InternFound` | `track_object` and the constructors; `slp_vm_intern_string` |
| `Load`, `Push`, `Pop`, `Store`, `RemoveElement` | instructions and natives that move values |
| `Call`, `Return`, `Yield` | frames, and coroutines cut out of the stack and put back (`Enter`) |
| `CallNative`, `CallBack`, `NativeReturns` | `call_value` of a native, `slp_vm_call(_value)` |
| `Acquire`, `Release` | `slp_callable_acquire`, `slp_callable_release` |
| `MarkRoots`, `Blacken`, `Sweep`, `Rebuild` | `slp_gc_collect` |
| `Restart` (`ReleaseAll`, `FreeObjects`, `NewVm`) | `slp_vm_free` and `slp_vm_new`, with the callables the host still has |

A collection may start at every safepoint: sizes and thresholds are abstracted to
that choice.  While it runs no instruction does.  `Careless` lets a native keep
a value in a local variable alone while it calls back; the code does so in the
places that the finding names.

## 4. Runs

No script is promised to end or to go on: `slp_vm_run` runs for as long as the
script has instructions.  Two things must come to an end whatever the script
does, and they are the liveness properties.  A collection ends: `Heap` assumes
`WF_vars(Collect)`, since `slp_gc_collect` is C code that calls nothing but itself
until it is done.  Formatting settles: `Formatter` assumes `WF_vars(Next)`, one
run of slp_fmt being a straight line of C code and the tool being run again as
often as the question asks.  Nothing else is assumed fair.  `CHECK_DEADLOCK
FALSE` stands where the modelled program stops: scripts end or leave the
anchored states (VmControl), chunks end (CompiledControl, Expressions), files are
written (Formatter), edits and steps are counted (ArrayViews, Scopes).

| run | instance | shows |
|---|---|---|
| `control` | 3 closures, one inline; stack 5, frames 3, handlers 3, 0 or 1 argument, 1 native that keeps 0 or 1 values, 1 try per closure; with a continuation (2 at most) a smaller part, `SmallWithContinuations` | heights, handlers, coroutines, continuations and natives stay sound through nested loops; a throw reaches the innermost try |
| `compiled` | about 11,000 programs: a loop of each kind holding a statement that may leave it, an inner loop or a try, and another such statement; the same inside of a try; `JumpMax` 4, `StackMax` 6 | compiled code does what the text says, but for the three patterns left out |
| `expressions` | ints of 4 and longs of 8 bits; every operator on pairs of boundary values; every expression around every other; calls of a native with arguments of every kind | code does what the tree means, survives a file, and is listed by the disassembler if none of its opcodes is one that the disassembler misreads (`Misread`); a host reads arguments in turn |
| `syntax` | two levels of operators with every parenthesis, rows of three operators without any, statements alone and in pairs of lines, nesting up to the parser's limit | trees are grouped as the precedences say; what is written for a regular tree is read again as that tree |
| `scopes` | an ordinary and an inline closure, one name, two values, 3 frames, 4 steps, of which the first 2 may change scopes | references alone make variables shared; no scope serves twice; watches see every change |
| `foreach` | an array and a hash of the same 2 elements, 2 loops, 2 frames, 1 operand, 1 change | every loop that only its own remove() disturbs sees each element once, and remove() hits the right element and slot |
| `hash` | 3 keys in 2 buckets that wrap around, capacity from 2, sequence numbers to 4, 2 policies at once, a cache of 2 | the table with its policies implements the map; a cache keeps its size |
| `views` | 3 arrays (a view of a view, two views of one array), 3 elements, length 4, 2 edits, of stale views too | views mirror their sources until these are edited otherwise, and are invalid from then on until they are edited themselves or something is sorted; no edit through views that mirror leaves its window |
| `heap` | the globals, a closure with its scope, 2 addresses for strings of one text; stack 2, frames 2, natives 2 (the host and one more), 1 callable, 2 elements, 2 local variables | nothing in use is freed and all garbage is; equal strings are one object; collections end |
| `format` | two nested operators | finding below |
| `safepoint` | as `heap`, with `Careless` | finding below |
| `stale` | as `views` | finding below |

Why the bounds are enough.  *VmControl*: the hazards need a caller, a native's
callee and a frame above it (3 frames), two handlers in different frames and one
more to tell a trim from a reset, and a coroutine resumed at a base other than
the one it was saved at (stack 5).  Every action and every disjunct fires, the
limits of stack, frames and handlers included.  Where callcc was used, contexts are
copied whole, and the bounds are smaller: two frames and a handler are a context
with something to lose, the first continuation may be taken and called with natives
around it, and a second one is what calling the first makes.  A continuation taken in a
nested loop and called outside of it brings the native's operands back without the
native: `NativesUndisturbed` is said until callcc is used.  *CompiledControl*: the compiler's state is two counts, two
depths and a flag, so that two statements that jump, with one loop or try
between them, meet every order of saving and restoring; deeper nesting repeats
it.  *Expressions*: compilation is by cases on one node with its operands, so
that each case around each other, with operands that count and assign, shows
any order but the right one; 4 and 8 bits have the same bounds, signs and
wrapping as 32 and 64, and the operators take one step.  *Formatter*: parentheses
depend on a node and its parent, the end of a statement on its last token and the
next line's first.  *Scopes*: two activations of each closure and a suspended
one are 3 frames; 4 steps are a declaration, a reference, an activation and an
assignment, and at the start the variable is unknown, or known in one of the
scopes and perhaps watched. *Foreach*: two elements are a visited and a pending
one; two loops meet both in one frame and in two. *HashTable*: from capacity 2
the table grows and fills with tombstones within four insertions, and three
keys in neighbouring buckets give probes that collide, wrap around and pass
tombstones; a policy inside a policy is the second of two. Keys of one bucket
are symmetric, and the last answer is left out of the view since no guard reads
it. Policies are on hashes of order 2 alone, whose reads change the order; the
operations of orders 0 and 1 are there without.
*ArrayViews*: three arrays give a chain of depth two and a fork; two edits are one
to disturb and one to go on, which each of its violations needs at most.
*Bytecode*: the programs of `expressions` have every opcode that the compiler emits
for the expressions modelled, those that are misread among them; a program without
them is walked to its end.
*Heap*: one closure, in its own scope and called by itself, gives cycles, a
coroutine that is suspended while an outer activation of it runs and collects,
and a native between two loops; a second address for the same text is what a
table that forgets or repeats a string needs.

Each property of a passing run has a mutant in `PROJECT.json`: a plausible bug
in the modelled code, with which TLC finds the property violated.  Operators
named as a variant (`SweepKeepsMarks`, `PutStale`, `YieldSkips` and others) serve
only there.

## 5. Where the code and what is said of it differ

Shown by a run:

* `format` - the formatter has a table of precedences of its own, in which `<=`,
  `>=`, `cmp` and bridged predicates are missing: `($a <= $b) + 1` is written without
  its parentheses and is another program (`src/slp_ast.c` 69; the test at
  `tests/test_formatter.cpp` 136 says that formatted code behaves identically).
* `safepoint` - OP_INDEX_SET into an ordered hash with a removal policy has the
  value in a C local while the policy runs; a collection there frees it
  (`src/slp_vm.c` 749; the comment at 4289 says that no such locals exist).
* `stale` - an edit of a view takes over the version of its source, whether the two
  agreed before or not: `$v = sublist(@a, 0, 3); clear(@a); push($v, 1)` leaves a
  view that is valid again and has a window that its source has not
  (`src/slp_value.c` 347, 374, 431; the warning at `src/slp_vm.c` 1587 is for such
  views).

Met while modelling; the models follow the code and their properties say where
they stop:

* Control.  OP_THROW takes the newest handler and drops frames down to it without
  looking at the loop's target: an exception of a closure that map, sort or the
  host called, caught outside of it, leaves the nested loop running the caller's
  frames (`src/slp_vm.c` 5394; the comment at 4284 says it runs until its frame
  returns).  exit() in a callback ends the callback, not the script
  (`src/slp_vm.c` 6356; `extensions/stdlib/stdlib.c` 5121).
* Compiler.  A break before an inner loop with a break of its own is never patched
  (`src/slp_compiler.c` 829), nor is the 257th (1114); continue in a while loop
  leaves it (846); an exception caught in a foreach loop leaves its value on the
  iterator (1149).  `PlainPrograms` leaves these out.  `@a[0]++` and `f()++` are
  compiled to a variable named by whatever bytes the node has (588); an anonymous
  `sub {}` leaves a closure on the stack; the indices of a tuple after the first
  element are ignored.
* foreach.  After a break, remove() removes from the loop that was left
  (`src/slp_vm.c` 2729): the run has `AfterBreak` FALSE, and with TRUE TLC finds
  `EachElementOnce` violated.
* Values.  OP_MODULO of the least integer by -1 traps the processor (4543; OP_DIVIDE
  guards that case); longs are compared as doubles; an assignment to an element of a
  read-only array pushes no value (5213, 5274); the int readers refuse
  2147483647.5, whose whole part fits.
* Disassembler.  OP_UNARY_PREDICATE, OP_BINARY_PREDICATE, OP_NEGATED_BINARY_PREDICATE
  and OP_ADDRESS are taken for instructions of one byte (they have three),
  OP_BRIDGE_REGISTER for one of three (it has five), and their operands are listed as
  instructions; so are those of OP_IMPORT, OP_CALLCC and OP_UNPACK_TUPLE, which the
  programs of the run have not (`src/slp_disasm.c` 192, 299; the comment at 235 says
  that reading a short there "would desync the entire disassembly stream").
  `Disassembles` leaves out programs with one of the first five (`Misread`); TLC finds
  `ListingFollowsCode`, which does not, violated.
* Views, besides the finding.  reverse and the sorts change an array in place without
  giving it a version: its views show the old order and are valid
  (`extensions/stdlib/stdlib.c` 2053-2128).  Sorting a view of a view assigns to the
  source by `slp_obj_array_sync_view`, which makes that source valid, though it may have
  been out of date, and the sorted view invalid, though it mirrors (`src/slp_value.c`
  443).  What a removal takes out of a view stays in its buffer, and an assignment past
  the end makes it visible again, while the source gets $null (413; the comment at
  `include/slp_value.h` 241 says that a view mirrors its mutations into its source).
* Containers.  Keys bound to $null are not counted by
  size() but are driven out in their turn, and a removal policy that inserts can
  exceed its own limit: `CacheBounded` speaks of the others.  A policy that says yes
  for an empty hash means that nothing is inserted.
* Collector.  `bytes_allocated` wraps around below 0: functions and I/O handles are
  linked without being counted but subtracted when they are freed (`src/slp_gc.c` 360).
* Variables.  let, named arguments and the initialisers of pushl rebind a watched
  variable without a report, and the model takes them as new variables.
* Formatter, besides the finding (`Regular` leaves these out of `RoundTrip`): a
  bare block grows an empty statement with each run; prefix ++ and -- are printed behind their
  operand; `- -x` becomes `--x`; the value of break, continue, halt and done and a
  missing catch are not printed; targets of calls and indices lose their
  parentheses; a line that starts with `%h`, `(`, `[` or `-` continues the one before.

## 6. Proofs

Every theorem is about all values of the constants that meet the named
assumptions of its module.  What they have in common, sequences and bounded sets of
numbers, is in `SequenceFacts`.

### VmControlProofs

First the lemmas about contexts, then the theorems about the specification.  The
only assumptions are `ContextAssumption` and
`ControlAssumption`: the limits are natural numbers with a stack that holds
one frame, the arguments and roots are natural numbers, and `None` is no
closure.  Nothing bounds closures, frames, handlers, coroutines, continuations
or nested natives.

The invariant proved inductive is `IInv`:

* `ContextSound`: in an anchored state frames are stacked and handlers nested;
* `CoroutinesSound`, `ContinuationsSound`: what is saved is sound as well, counted
  from its own height, since it comes back into the context later;
* `NativesSound`: a native has its caller's context below its operands, so that a
  loop that ends gives the native a sound context back;
* `LoopsMatch`: one dispatch loop per native that waits, and one for the host;
* `RetsExist`: frames return to continuations that exist.

`StackDiscipline` and `HandlerDiscipline` alone are not inductive: a return uses
the context of the native it returns to, a call the saved coroutine it
resumes, a continuation its copied context.  The proof has a lemma per action
and four facts about contexts on which those rest: a new activation
on top, a prefix with its handlers trimmed, a capture and a resumption keep
contexts sound (`PushContext`, `PrefixContext`, `CaptureContext`,
`ResumeContext`).  `Inductive` is `Spec => []IInv`; `TypeCorrect`,
`ActivationsStacked`, `HandlersSound`, `SavedSoundly` and
`ContinuationsStaySound` follow.

### VmTriesProofs

The other three properties of `VmControl` are false of some executions, and the
theorems name which: `HandlersFit` says that no try is entered when
`MaxHandlers` handlers are recorded (OP_PUSH_HANDLER then drops the handler without a
word).  It is a condition on an execution; no constant is bounded.

* `Tried`: every try has its handler, in the running context *and* in every context
  kept for later: the callers of natives, suspended activations, continuations.  Each of
  them comes back some day.  With the order of handlers (`HandlersNested`, part of
  `IInv`) the last handler is the innermost try's (`LastHandlerInnermost`), so that
  OP_POP_HANDLER, which pops whatever is last, pops its own.
  `TriesHaveHandlers` and `ThrowsReachInnermostTry` follow.
* `Undisturbed`: the contexts of waiting natives lie on top of one another, the running
  loop is on top of them all, with its next frame above the native's operands and
  all later handlers of later frames (`Over`).  It needs `Tried`: a try without a
  handler would, at its end, pop one of the native's caller.  It holds until callcc is
used, since a continuation replaces the context of waiting natives too, and
continuations are never forgotten (`FirstContinuation`).
  `NativesStayUndisturbed` follows.

A loop that leaves its own frames (a throw to a try below the native, say) is not
excluded: `Anchored` becomes false there, as in section 3.

### HeapProofs

The assumption is `HeapAssumption`.  Three invariants rest on each other:

* `Shape`, of every VM: types; frames and natives nested like brackets around
  parts of the stack (`FramesRise`, `NativesRise`, `Bracketed`); marks and the
  gray stack empty unless a collection traces (`MarksTransient`).
* `Interning`, of every VM: the table is exact, and no text is twice in the heap
  (`TextsDistinct`).  The second part is what the table does not say of itself
  between a sweep and its rebuild, when it has dead strings in it, and what it
  is made from again.
* `Managed`, of a VM whose natives are careful (`~Careless`): nothing in use is
  freed (`NoDangling`); what a waiting native still needs is on the stack *below
  the frame of its callback* (`KeptOnStack`), which is why no instruction of the callback
  can drop it; what is not linked points to nothing (`FreeIsEmpty`), so that an address
  used again brings nothing back; and the tri-colour invariant of the trace
  (`TriColour`).  With those, when the gray stack is empty the marked objects are
  the reachable ones, no more and no less, which is `GarbageGoes`, and the sweep
  takes nothing that is in use, which is `NothingDangles`.

`~Careless` is a hypothesis of the theorems, since the code does not keep to it
(the finding of section 5): they say that carelessness of natives is the only
way to a freed value.

### ForeachProofs

The assumption is `ForeachAssumption`; the hypothesis `~AfterBreak` says that the
script calls remove() in the loop it means (section 5 has the other case).  The invariant is
`Kept`:

* `Distinct`: keys of a hash, and here elements of an array, are there once, so that
  an element has one position;
* `Placed`: loops have slots of their own, rising in a frame and from frame to
  frame, and only the running frame is about to advance, with nothing above its
  iterator;
* `OperandsWhole`: remove() has changed no operand;
* `Sound` of every frame: each loop finds its collection and its iterator
  (`LoopWhole`), the version the frame compares with is the array's for each loop
  nobody disturbed (`VersionAt`: the reason that `foreach_invalidated` does not end
  a loop early), visited and remaining elements make up the start (`OnceAt`), and
  the frame's one set of fields describes its innermost loop whenever remove() can
  use them (`ActingAt`: for an array the iterator is one more than the index; for a
  hash the element visited is at the iterator, or was the last).

`RemovesCurrentElement` and `EachElementOnce` are not inductive alone: a removal
shifts the elements behind it and moves the iterator back, and what remains of the
loop is as before only if the slot, the index and the version all belong to that
loop.  Loops in other frames are kept apart by `Placed`, and the loops of the same
frame by what OP_FOREACH_NEXT resets.

### ScopesProofs

The assumption is `ScopesAssumption`: besides the bounds, there are the four
tables of the initial states, and the names of variables are none of the
three words the model uses in their place (`Arg`, `ByValue`, `Bare`).  `Inv` has
three parts:

* `Shaped` says which tables, arrays and scopes the activations have, and does
  not look into tables: `LaidOut` (served activations, arrays with one ordinary
  owner, local scopes that are in one array at one position and serve for nothing
  else) and `Kept`, that arrays without activations are empty, which is why a table
  that no activation, closure or argument uses is in no array (`FreeMeans`) and a
  free array is there for the next call (`FreeArrayIs`, by counting).  Suspended
  activations count as live, which is what makes a resumption safe: `ScopesOwned`
  for the running frames alone would not be inductive.
* `Sound(mem)` is about a memory alone: its type, `Agrees` (the places of a
  variable of `mem.vars` are those that have one cell, and each shows its value)
  and `Reports`.  There is a lemma for each operator on memories: setting a
  binding, assigning, taking a reference, binding by value or by reference, watching,
  collecting (`BindFresh`, `BindJoined`, `AssignIs`, `ReferenceIs`, `WatchIs`,
  `CollectedIs`).  A reference to a place that has no cell needs a cell nobody uses;
  this is the one place where `CellsFor` of the actions is needed.
* `HaveSlots`: live activations have their argument, so that a reference to $1 finds
  it.

An action is then proved in two halves: what it builds has the parts (`Fit`),
and `Become` collects and keeps them (`BecomesInv`).  `SharedAsAsked`, `ScopesOwned`
and `WatchesReport` follow from `Inv`, for any number of closures, names and steps.

### HashProofs

For any keys and homes, any first capacity, limit and depth of policies, and
hashes of any size.  What is assumed of the constants: `HashAssumption` ($null is
not a key, and no other name of true) and `PoliciesAssumption` (policies are on
ordered hashes, a limit is positive).  The argument has four layers:

* Tables (`Good`).  A slot holds an entry, nothing or a tombstone, and each entry is
  `Reached`: on the way from the home of its key to it there is neither an unused
  slot nor another entry of that key.  The wrapped probes of a key meet every slot
  once (`Probes`, from `Wraps`), so a table with a slot to spare has a place for
  every key (`Lands`).  Filling an empty slot, replacing an entry and leaving a
  tombstone keep a table good (`Filled`, `Replaced`); so does moving the entries one
  by one into a larger one (`Placed`, `Grown`). `EntriesReachable`
  says no less of the ways, but an induction needs the rest: without a spare slot,
  which only count can promise, a new key might land on an entry.
* Hashes (`HashOK`): the table is good, count is the number of entries, and the
  sequence numbers are different and not above `next_sequence`.  What an operation
  does is said of the set of entries, where slots no longer matter (`PutEntries`,
  `WithoutEntries`, `TouchedEntries`, `ClearedEntries`).  The load factor leaves room
  after every call (`Roomy`): three quarters are counted in entries without their
  tombstones, and one slot without an entry is enough, for a tombstone will do.
* Order.  `hash_entry_precedes` is a total order of the entries (`PrecedesTotal`),
  in mode 0 because entries of one bucket have different numbers, so the ranks of
  the elements of a finite set (`Ranked`) name each once.  In modes 1 and 2 a sequence
  of keys by number is unique (`OneOrder`): it is enough to say how each operation
  changes it (`AppendOrder`, `SameOrder`, `RemoveOrder`).  A copy is
  followed ordinal by ordinal (`DuplicateMaps`).
* Steps.  Each action keeps `HashInv` and is an action of `OrderedMap` (`SetMaps` to
  `PolicyFailsMaps`); in mode 0 the map asks of an order only that it lists the keys.
  `PoliciesOK` says that only ordered hashes have questions.

This gives `EveryEntryReachable`, `AlwaysRoom`, `OrdinalsNameEntries` and, step
by step, `TableImplementsMap`.  `CacheKeepsItsSize` needs `CacheInv` besides:
one removal policy at most waits, since under a cache's policy only keys that are held
are set, and if the eldest it was asked about is gone, an entry is missing.  The last
part is what makes the stale eldest in `hash_set_canonical` harmless here.

### ArrayProofs

For any number of arrays, views of any depth, edits and lengths; the assumption
is `ViewsAssumption`.  The invariant is `ViewsInv`, `Holds` of some set of values:

* sources are older than their views, so every way to a root ends (`WayIs`);
* no view has seen a later version of its source than there is (`Agrees`);
* a view that is in neither history is a slice of its source, element by element, and
  its window ends within it (`Slice`).

`ViewsMirror` is not inductive alone: an edit of a view of a view is written at the
sum of two offsets, and hits the element that the window shows only if the windows on
the way are slices, ends included.  A script may also edit a view whose own way is
stale somewhere above.  So nothing can be said of the whole way at once, and the first
two layers of the argument go from an array to its source:

* One edit (`InsertKeeps`, `RemoveKeeps`, `SetKeeps`).  While it climbs (`Climb`), the
  arrays below have been edited and those above are as they were; each array below
  that was a slice of its source is one again, but the one whose source comes next,
  which `Awaits` that edit.  An assignment past the end stops in the first array that
  is not long enough (`LandKeeps`) and extends its source element by element
  (`ExtendKeeps`); what the buffer shows then is in `shown` (`ShowingIs`).  Where a
  stale view sends an edit to an index its source has not, the edit is clamped or ends.
* One call.  `Kept` is what edits of one array and the arrays on its way keep of a
  heap: who is a slice, that versions do not go back, that a view changed from a child
  is invalid.  It is transitive (`KeptTwice`), so the loops of the library keep it,
  also when the array walked is a view of the one that is edited (`KeptClosed`), and
  so does the synchronisation after a sort (`SyncKeeps`).  With that, an action keeps
  the invariant (`EditHolds`).

`AlwaysHolds` is `Spec => []ViewsInv`, and `WindowsMirror` follows.  `StaleUntilEdited`
needs `Agrees` besides: a source that was edited otherwise has a version that its view
has never seen, and since versions only grow, only the two places that copy the
version can make them equal again (`StaleAfterEdit`).

`NoEditOutside`, the action property, needs more of the ways it speaks of, on which all
windows are slices:

* Windows.  An array whose window became the sequence `q` keeps what is before
  and after it (`Window`); inserting, removing and assigning in the window keeps
  this (`WindowInsert`, `WindowRemove`, `WindowSet`), and so each array on the way
  with the offset of its own (`Moved`, `Spread`).
* `Reach` is what a call can make of a heap by edits that go all the way
  (`ReachInsert`, `ReachRemove`).  The heap that waits for its sources is a stage of
  its own (`Stage`): an assignment past the end extends its source afterwards, a sort
  or a reverse assigns the whole window to it (`SetOutcome`, `RearrangeOutcome`).
* The root is then as before outside of the window (`EditInside`).

What sorting returns is defined by recursion, so the proof takes any values in its
place, and the set of values in the invariant grows by them: that views mirror does
not depend on the order that sort makes.

### Model-checked only

CompiledControl, Parser, Expressions and Bytecode, whose definitions are
recursive, which the prover cannot use: `FollowsSource`, `HandlersMatchTries`,
`OperandsMatchLoops`, `ParsesByPrecedence`, `LinesAreStatements`, `RoundTrip`,
`FollowsMeaning`, `Balanced`, `LoadsBack`, `Disassembles`, `HostReadsInTurn`; and
liveness, `CollectionEnds` and `Settles`.  The other 26 properties of the passing
runs are theorems.

## 7. Not modelled

* Failures of allocation, except as an instruction that fails.
* In the control of the VM: what a native does whose push finds the stack full
  (`slp_vm_push` drops the value and asks for an abort, `src/slp_vm.c` 118, and the
  native goes on without it), and the one instruction that a nested loop executes
  before it tests for an abort that callcc, resumed at a full stack, asked for (6356).
  The model stops in both cases.
* In foreach: generators, iterators of the host, coroutines suspended in a loop.
* In the hash table: the serialized copy.
* In arrays: scalar cells as elements, read-only arrays, sorting by a
  comparator that edits arrays.
* In scopes: continuations, taint, more than one argument of a call.
* In the heap: sizes and thresholds, open upvalues, continuations, iterators of
  foreach, the buffers of arrays behind their count.
* In expressions: the predicates on files and letters, `isa`, regular
  expressions, lt, gt, le, ge and cmp of strings, upvalues (no instruction the
  compiler emits uses them), the text of doubles.
* In the parser: characters, escapes and numerals, comments, keywords that
  bridges add, error messages and recovery; strings of several lines, whose line is
  the last one for the lexer, so that one that begins on the line of the token before
  it is taken to stand on a new line (`slp_parser.c:1237`; `return "a` newline `b"`
  returns nothing).
* In bytecode: the listing's text, line numbers, functions nested further than
  one level, damaged files.
* Of the embedding API: bridges and the output hooks.
* Of the standard library: text, time, files, sockets, pack, digests, fork and
  semaphores.  They keep no state that other parts use: fork calls its
  closure at once, and acquire never waits.
* The regular expressions, vendored, the platform layer, slp, slpd and the
  console: calls of a library, wrappers of the operating system, command lines.
