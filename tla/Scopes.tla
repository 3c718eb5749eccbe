------------------------------- MODULE Scopes -------------------------------
(***************************************************************************)
(* The variables of the VM: global, closure and local scopes (slp_vm.c),   *)
(* the cells that let two names share a variable, watches, and what calls, *)
(* returns, throws, yields, pushl, popl, let and lambda do to them.        *)
(*                                                                         *)
(* A scope is a table from names to bindings.  A binding is a plain value  *)
(* until somebody takes a reference to it; then the value moves into a     *)
(* cell and the binding becomes that cell (scoped_variable_reference).     *)
(* The arguments of an activation are a table of their own with one name,  *)
(* Arg.  An inline function shares the array of local scopes and the       *)
(* closure scope of its caller.                                            *)
(*                                                                         *)
(* mem.vars is not in the program: it says what the script means by its    *)
(* variables, in the terms of module Variables, and follows each action    *)
(* without looking at cells.  Continuations are left out (VmContext has    *)
(* them): two contexts may share one array of local scopes.                *)
(***************************************************************************)
EXTENDS Naturals, Sequences, FiniteSets, SequencesExt, Variables

CONSTANTS Names,        \* variable names
          Values, Null, \* what variables hold; Null is one of Values
          Closures,     \* the closures of the script
          Inlines,      \* those of them that are inline
          Script,       \* the one the host calls first
          MaxFrames, MaxScopes, MaxTables, MaxCells,   \* bounds
          MaxSteps,     \* length of a run,
          MaxScopeSteps \* and of its part in which scopes are changed

VARIABLES mem,        \* [tables, cells, vars]
          arrays,     \* the arrays of local scopes, as sequences of tables
          frames,     \* the activations
          scopes,     \* the scope of each closure, None before it needs one
          suspended,  \* the frames of each closure that has yielded
          steps       \* bounds the runs

vars == <<mem, arrays, frames, scopes, suspended, steps>>

Arg == "arg"          \* $1: SLP has nine, all alike
ByValue == "value"    \* no name: what is passed is a value
Bare == "bare"        \* a key that is not the name of a variable
None == 0
Globals == 1
Tables == 1..MaxTables
Cells == 1..MaxCells
Nowhere == <<None, Arg>>

\* Init uses four tables.
ASSUME ScopesAssumption ==
    /\ Null \in Values /\ Inlines \subseteq Closures /\ Script \in Closures \ Inlines
    /\ {MaxFrames, MaxScopes, MaxTables, MaxCells, MaxSteps, MaxScopeSteps}
          \subseteq Nat \ {0}
    /\ MaxTables >= 4
    /\ Names \cap {Arg, ByValue, Bare} = {}

-----------------------------------------------------------------------------
(* Tables, bindings and cells.                                             *)

Plain(v) == [cell |-> None, value |-> v]
Boxed(c) == [cell |-> c, value |-> Null]
NoCell == [value |-> Null, watched |-> FALSE, reported |-> Null]

\* dereference_value
ValueOf(m, b) == IF b.cell = None THEN b.value ELSE m.cells[b.cell].value

\* slp_obj_hash_set of a scope.
HashSet(m, t, n, b) ==
    [m EXCEPT !.tables[t] = [k \in DOMAIN @ \cup {n} |-> IF k = n THEN b ELSE @[k]]]

\* The assigned value; a watched cell reports it.
WatchedCellAssign(m, c, v) ==
    [m EXCEPT !.cells[c].value = v,
              !.cells[c].reported = IF m.cells[c].watched THEN v ELSE @]

\* Mutant: the cell of a variable is replaced instead of assigned.
AssignBindingAnew(m, t, n, v) == HashSet(m, t, n, Plain(v))

\* assign_binding of a value that is not itself a cell.
AssignBinding(m, t, n, v) ==
    IF n \in DOMAIN m.tables[t] /\ m.tables[t][n].cell # None
    THEN WatchedCellAssign(m, m.tables[t][n].cell, v)
    ELSE HashSet(m, t, n, Plain(v))

\* Mutant: an argument that is a cell is assigned without the report.
SlotAssignSilently(m, t, v) ==
    LET c == m.tables[t][Arg].cell
    IN  IF c # None THEN [m EXCEPT !.cells[c].value = v]
        ELSE HashSet(m, t, Arg, Plain(v))

SlotAssign(m, t, v) == AssignBinding(m, t, Arg, v)

Assign(m, t, n, v) ==
    [AssignBinding(m, t, n, v) EXCEPT !.vars = Assigned(@, <<t, n>>, v)]

Bound(m) == UNION {{<<t, n>> : n \in DOMAIN m.tables[t]} : t \in Tables}
UsedCells(m) == {m.tables[p[1]][p[2]].cell : p \in Bound(m)}
FreeCells(m) == Cells \ UsedCells(m)
Lowest(S) == CHOOSE x \in S : \A y \in S : x <= y

\* The binding at n of table t becomes a cell, unless it is one.
Reference(m, t, n) ==
    LET b == m.tables[t][n]
        c == Lowest(FreeCells(m))
    IN  IF b.cell # None THEN m
        ELSE HashSet([m EXCEPT !.cells[c] = [NoCell EXCEPT !.value = b.value]],
                     t, n, Boxed(c))

SlotReference(m, t) == Reference(m, t, Arg)

-----------------------------------------------------------------------------
(* Where a name is looked up.                                              *)

Frame == frames[Len(frames)]

\* The local scopes that names are looked up in: the last one only.
LocalScope(ar, f) == ar[f.locals][Len(ar[f.locals])]

Levels ==
    IF frames = <<>> THEN <<Globals>>
    ELSE <<LocalScope(arrays, Frame), Frame.scope, Globals>>

Level(m, n) ==
    IF \E i \in DOMAIN Levels : n \in DOMAIN m.tables[Levels[i]]
    THEN Levels[Lowest({i \in DOMAIN Levels : n \in DOMAIN m.tables[Levels[i]]})]
    ELSE Globals

\* A variable that is read before it is known becomes a global one.
Implicit(m, n) ==
    IF n \in DOMAIN m.tables[Level(m, n)] THEN m ELSE Assign(m, Globals, n, Null)

\* OP_REFERENCE_GLOBAL, and OP_REFERENCE_LOCAL for the argument.
ScopedReference(m, n) ==
    IF n = Arg THEN SlotReference(m, Frame.slots)
    ELSE LET i == Implicit(m, n) IN Reference(i, Level(i, n), n)

PlaceOf(m, n) == IF n = Arg THEN <<Frame.slots, Arg>> ELSE <<Level(m, n), n>>

(* What is passed: a value other than $null, or a variable by reference.  After ScopedReference *)
(* of those that are variables, Passed is the binding the callee gets.         *)
Givens == [name : {ByValue}, value : Values \ {Null}]
          \cup (IF frames = <<>> THEN {}
                ELSE [name : Names \cup {Arg}, value : {Null}])

Nothing == [name |-> ByValue, value |-> Null]

Referenced(m, g) == IF g.name = ByValue THEN m ELSE ScopedReference(m, g.name)
Passed(m, g) ==
    IF g.name = ByValue THEN Plain(g.value)
    ELSE LET p == PlaceOf(m, g.name) IN m.tables[p[1]][p[2]]
Origin(m, g) == IF g.name = ByValue THEN Nowhere ELSE PlaceOf(m, g.name)

\* Name n of table t is bound to what was passed.
Bind(m, t, n, b, origin) ==
    [HashSet(m, t, n, b) EXCEPT
        !.vars = IF origin = Nowhere THEN Fresh(@, <<t, n>>, b.value)
                 ELSE Joined(@, <<t, n>>, origin)]

\* A key/value pair; its key may be no variable.
Pairs(keys) == {<<[key |-> k, given |-> g]>> : k \in keys, g \in {h \in Givens : h.name # Arg}}
NoPair == <<>>
BindPairs(m, t, ps, bs, os) ==
    IF ps = <<>> THEN m ELSE Bind(m, t, ps[1].key, bs[1], os[1])
RefPairs(m, ps) == IF ps = <<>> THEN m ELSE Referenced(m, ps[1].given)
Bindings(m, ps) == [i \in DOMAIN ps |-> Passed(m, ps[i].given)]
Origins(m, ps) == [i \in DOMAIN ps |-> Origin(m, ps[i].given)]

-----------------------------------------------------------------------------
(* What is still in use.  The collector frees the rest.  *)

AllFrames(fr, su) == Range(fr) \cup UNION {Range(su[c]) : c \in Closures}

TablesInUse(ar, fr, sc, su) ==
    {Globals} \cup (Range(sc) \ {None})
    \cup UNION {{f.scope, f.slots} \cup Range(ar[f.locals]) : f \in AllFrames(fr, su)}

Collected(m, live) ==
    LET bare == [m EXCEPT
            !.tables = [t \in Tables |-> IF t \in live THEN @[t] ELSE <<>>],
            !.vars = Without(@, {p \in UNION {x.places : x \in @} : p[1] \notin live})]
    IN  [bare EXCEPT !.cells = [c \in Cells |->
            IF c \in UsedCells(bare) THEN @[c] ELSE NoCell]]

Become(m, ar, fr, sc, su) ==
    /\ \E live \in {TablesInUse(ar, fr, sc, su)} : mem' = Collected(m, live)
    /\ arrays' = [a \in DOMAIN ar |->
          IF \E f \in AllFrames(fr, su) : f.locals = a THEN ar[a] ELSE <<>>]
    /\ frames' = fr /\ scopes' = sc /\ suspended' = su

\* Only variables change.
Set(m) == Become(m, arrays, frames, scopes, suspended)

FreeTables == Tables \ TablesInUse(arrays, frames, scopes, suspended)
FreeTable(k) ==
    CHOOSE t \in FreeTables : Cardinality({u \in FreeTables : u <= t}) = k

-----------------------------------------------------------------------------
(* The host has called the script, and one of its scopes has got some      *)
(* variables (by local, this or global), perhaps watched.                  *)
Slots(t) == [[u \in Tables |-> <<>>] EXCEPT ![t] = [n \in {Arg} |-> Plain(Null)]]

Init ==
    /\ \E t \in {Globals, 3, 4}, known \in SUBSET Names, watched \in SUBSET Names :
       \E m \in {[tables |-> [Slots(2) EXCEPT ![t] = [n \in known |-> Plain(Null)]],
                  cells |-> [c \in Cells |-> NoCell],
                  vars |-> Fresh({}, <<2, Arg>>, Null)
                           \cup {Variable({<<t, n>>}, Null) : n \in known}]} :
           /\ watched \subseteq known /\ Cardinality(watched) <= 1
           /\ mem = IF watched = {} THEN m
                    ELSE LET n == CHOOSE n \in watched : TRUE
                         IN  [Reference(m, t, n) EXCEPT !.cells[1].watched = TRUE]
    /\ arrays = [a \in 1..MaxFrames + 1 |-> IF a = 1 THEN <<3>> ELSE <<>>]
    /\ frames = <<[closure |-> Script, locals |-> 1, scope |-> 4, slots |-> 2]>>
    /\ scopes = [c \in Closures |-> IF c = Script THEN 4 ELSE None]
    /\ suspended = [c \in Closures |-> <<>>]
    /\ steps = 0

Running == frames # <<>>
Room(k) == Cardinality(FreeTables) >= k

\* There are cells for the variables in ns that have none yet.
CellsFor(ns) ==
    Cardinality(FreeCells(mem)) >= Cardinality({n \in ns \ {ByValue} :
        LET p == PlaceOf(mem, n) IN ~(p \in Bound(mem) /\ mem.tables[p[1]][p[2]].cell # None)})
NamesIn(ps) == {ps[i].given.name : i \in DOMAIN ps}

(* Reads and assignments of variables and arguments.                       *)

Load(n) == Running /\ Set(Implicit(mem, n))

\* scoped_variable_set: OP_STORE_GLOBAL, OP_STORE_CATCH and the host.
Store(n, v) == Set(Assign(mem, Level(mem, n), n, v))

StoreSlot(v) ==
    /\ Running
    /\ Set([SlotAssign(mem, Frame.slots, v) EXCEPT
               !.vars = Assigned(@, <<Frame.slots, Arg>>, v)])

\* A native is passed a variable by reference and assigns it (checkError).
AssignReference(n, v) ==
    /\ Running /\ CellsFor({n})
    /\ \E m \in {ScopedReference(mem, n)} : \E p \in {PlaceOf(m, n)} :
           Set([WatchedCellAssign(m, m.tables[p[1]][p[2]].cell, v) EXCEPT
                   !.vars = Assigned(@, p, v)])

(* local, this and global: names a scope has already are left as they are; *)
(* a malformed name ends the declaration, names before it stay.            *)
Declared(m, t, n) ==
    IF n = Bare \/ n \in DOMAIN m.tables[t] THEN m ELSE Assign(m, t, n, Null)

DeclareIn(t, n) == Set(Declared(mem, t, n))
Local(n)  == Running /\ \E t \in {Levels[1]} : DeclareIn(t, n)
This(n)   == Running /\ \E t \in {Levels[2]} : DeclareIn(t, n)
Global(n) == DeclareIn(Globals, n)

\* The functions of the same names declare each of their arguments, here two.
Each(m, t, n, o) == Declared(Declared(m, t, n), t, o)
BuiltinLocal(n, o)  == Running /\ \E t \in {Levels[1]} : Set(Each(mem, t, n, o))
BuiltinThis(n, o)   == Running /\ \E t \in {Levels[2]} : Set(Each(mem, t, n, o))
BuiltinGlobal(n, o) == Running /\ Set(Each(mem, Globals, n, o))

\* watch(): the name must be known.  A cell that is there is used.
Watch(n) ==
    /\ Running /\ CellsFor({n})
    /\ n \in DOMAIN mem.tables[Level(mem, n)]
    /\ \E m \in {Reference(mem, Level(mem, n), n)} :
       \E c \in {m.tables[Level(m, n)][n].cell} :
           Set([m EXCEPT !.cells[c].watched = TRUE,
                         !.cells[c].reported = m.cells[c].value])

-----------------------------------------------------------------------------
(* Calls.                                                                  *)

FreeArray == Lowest({a \in DOMAIN arrays : arrays[a] = <<>>})

\* A scope that a closure does not have yet is made when it is needed.
EnsureClosureScope(c, t) == IF scopes[c] = None THEN [scopes EXCEPT ![c] = t] ELSE scopes

(* An inline function uses the scopes of the activation that calls it, an  *)
(* ordinary one gets a local scope in an array of its own.                 *)
\* Mutant: every activation takes the scopes of its caller.
SharesAlways(c) == Running

SharesScopes(c) == c \in Inlines /\ Running

Activation(c, sc) ==
    IF SharesScopes(c)
    THEN [closure |-> c, locals |-> Frame.locals, scope |-> Frame.scope,
          slots |-> FreeTable(1)]
    ELSE [closure |-> c, locals |-> FreeArray, scope |-> sc[c],
          slots |-> FreeTable(1)]

Enter(c, m, b, o, ps, bs, os) ==
    \E sc \in {IF SharesScopes(c) THEN scopes ELSE EnsureClosureScope(c, FreeTable(3))} :
    \E f \in {Activation(c, sc)} :
    \E ar \in {IF SharesScopes(c) THEN arrays
               ELSE [arrays EXCEPT ![f.locals] = <<FreeTable(2)>>]} :
    \E m1 \in {Bind(m, f.slots, Arg, b, o)} :
        Become(BindPairs(m1, LocalScope(ar, f), ps, bs, os),
               ar, Append(frames, f), sc, suspended)

(* The frames of a suspended closure come back as they were; an argument   *)
(* replaces the first one, if there is one.                                *)
Resume(c, m, given, b, o, ps, bs, os) ==
    LET saved == suspended[c]
        root  == saved[1]
    IN  \E m1 \in {IF given THEN Bind(m, root.slots, Arg, b, o) ELSE m} :
            Become(BindPairs(m1, LocalScope(arrays, root), ps, bs, os),
                   arrays, frames \o saved, scopes, [suspended EXCEPT ![c] = <<>>])

\* Without an argument $1 is a new $null.  A bare key makes the call fail.
Call(c, given, g, ps) ==
    /\ Room(3) /\ CellsFor({g.name} \cup NamesIn(ps))
    /\ \E m \in {RefPairs(Referenced(mem, g), ps)} :
       \E b \in {Passed(m, g)}, o \in {Origin(m, g)} :
       \E bs \in {Bindings(m, ps)}, os \in {Origins(m, ps)} :
           IF ps # <<>> /\ ps[1].key = Bare
           THEN Set(m)
           ELSE IF suspended[c] = <<>>
           THEN Enter(c, m, b, o, ps, bs, os)
           ELSE Resume(c, m, given, b, o, ps, bs, os)

(* inline(): a clone of the function is called at once, as an inline one;  *)
(* it takes the place of an inline function that is not running.           *)
BuiltinInline(c) ==
    /\ Running /\ Room(2) /\ c \in Inlines
    /\ \A i \in DOMAIN frames : frames[i].closure # c
    /\ \E f \in {Activation(c, scopes)} : \E m \in {Bind(mem, f.slots, Arg, Plain(Null), Nowhere)} :
           Become(m, arrays, Append(frames, f), [scopes EXCEPT ![c] = FreeTable(2)],
                  [suspended EXCEPT ![c] = <<>>])

Cut(n) == SubSeq(frames, 1, n)

\* What an ordinary closure pushed and did not pop is dropped with it.
Truncated ==
    IF Frame.closure \in Inlines THEN arrays
    ELSE [arrays EXCEPT ![Frame.locals] = SubSeq(@, 1, 1)]

Return ==
    /\ Running
    /\ Become(mem, Truncated, Cut(Len(frames) - 1), scopes, suspended)

\* The ordinary activation that the inline functions on top belong to.
Root ==
    LET ordinary == {i \in DOMAIN frames : frames[i].closure \notin Inlines}
    IN  IF ordinary = {} THEN 1 ELSE CHOOSE i \in ordinary : \A j \in ordinary : j <= i

\* OP_INLINE_RETURN: return from the caller of an inline function.
InlineReturn ==
    /\ Running /\ Frame.closure \in Inlines
    /\ Become(mem, arrays, Cut(Root - 1), scopes,
              [suspended EXCEPT ![frames[Root].closure] = <<>>])

Yield ==
    /\ Running
    /\ Become(mem, arrays, Cut(Root - 1), scopes,
              [suspended EXCEPT ![frames[Root].closure] =
                   SubSeq(frames, Root, Len(frames))])

\* An exception caught by activation k; the scopes k has pushed stay.
Throw(k) ==
    /\ k \in 1..Len(frames) - 1
    /\ Become(mem, arrays, Cut(k), scopes, suspended)

-----------------------------------------------------------------------------
(* pushl and popl.  A malformed initialiser fails after those before it:   *)
(* pushl takes the new scope back (ok is FALSE), popl has popped and stays *)
(* so.                                                                     *)

Initialized(m, t, ps) == BindPairs(m, t, ps, Bindings(m, ps), Origins(m, ps))

Pushl(ps, ok) ==
    LET t == FreeTable(1)
        a == Frame.locals
    IN  /\ Running /\ Room(1) /\ CellsFor(NamesIn(ps)) /\ Len(arrays[a]) < MaxScopes
        /\ \E m \in {RefPairs(mem, ps)} :
               Become(Initialized(m, t, ps),
                      IF ok THEN [arrays EXCEPT ![a] = Append(@, t)] ELSE arrays,
                      frames, scopes, suspended)

Popl(ps) ==
    LET a == Frame.locals
    IN  /\ Running /\ CellsFor(NamesIn(ps)) /\ Len(arrays[a]) > 1
        /\ \E m \in {RefPairs(mem, ps)}, ar \in {[arrays EXCEPT ![a] = Front(@)]} :
               Become(Initialized(m, LocalScope(ar, Frame), ps), ar,
                      frames, scopes, suspended)

-----------------------------------------------------------------------------
(* Binding variables into the scope of a closure.                          *)

\* let: by reference, into the scope the closure has.
Let(c, ps) ==
    /\ Running /\ Room(1) /\ CellsFor(NamesIn(ps))
    /\ \E m \in {RefPairs(mem, ps)}, sc \in {EnsureClosureScope(c, FreeTable(1))} :
           Become(BindPairs(m, sc[c], ps, Bindings(m, ps), Origins(m, ps)),
                  arrays, frames, sc, suspended)

\* let with $this: c and d use one scope from now on.
LetThis(c, d) ==
    /\ Running /\ Room(2)
    /\ \E sc \in {[EnsureClosureScope(c, FreeTable(1)) EXCEPT
                       ![d] = EnsureClosureScope(d, FreeTable(2))[d]]} :
           Become(mem, arrays, frames, [sc EXCEPT ![c] = sc[d]], suspended)

(* lambda: a clone with a scope of its own and copies of the values.  It   *)
(* takes the place of a closure that is not running.                       *)
Lambda(c, ps) ==
    /\ Running /\ Room(1) /\ CellsFor(NamesIn(ps))
    /\ \A i \in DOMAIN frames : frames[i].closure # c
    /\ \E m \in {RefPairs(mem, ps)}, t \in {FreeTable(1)} :
       \E bs \in {[i \in DOMAIN ps |-> Plain(ValueOf(m, Passed(m, ps[i].given)))]} :
           Become(BindPairs(m, t, ps, bs, [i \in DOMAIN ps |-> Nowhere]),
                  arrays, frames, [scopes EXCEPT ![c] = t],
                  [suspended EXCEPT ![c] = <<>>])

\* lambda with $this: the clone gets the scope of d instead of its own.
LambdaThis(c, d) ==
    /\ Running /\ Room(1)
    /\ \A i \in DOMAIN frames : frames[i].closure # c
    /\ \E sc \in {EnsureClosureScope(d, FreeTable(1))} :
           Become(mem, arrays, frames, [sc EXCEPT ![c] = sc[d]],
                  [suspended EXCEPT ![c] = <<>>])

\* OP_INDEX_SET of a closure.
SetInClosure(c, n, v) ==
    /\ Running /\ Room(1)
    /\ \E sc \in {EnsureClosureScope(c, FreeTable(1))} :
           Become(Assign(mem, sc[c], n, v), arrays, frames, sc, suspended)

-----------------------------------------------------------------------------
\* Assigning the value that is there already shows nothing.
Other(m, p) == Values \ {IF p \in Bound(m) THEN ValueOf(m, m.tables[p[1]][p[2]]) ELSE Null}

OfVariables ==
    \/ \E n \in Names : Load(n) \/ Watch(n)
    \/ \E n \in Names : \E v \in Other(mem, <<Level(mem, n), n>>) : Store(n, v)
    \/ Running /\ \E v \in Other(mem, <<Frame.slots, Arg>>) : StoreSlot(v)
    \/ Running /\ \E n \in Names \cup {Arg} : \E v \in Other(mem, PlaceOf(mem, n)) :
           AssignReference(n, v)
    \/ \E n \in Names \cup {Bare} : Local(n) \/ This(n) \/ Global(n)
    \/ \E n, o \in Names \cup {Bare} :
          BuiltinLocal(n, o) \/ BuiltinThis(n, o) \/ BuiltinGlobal(n, o)

\* A call has at most one argument, by position or by name.
OfActivations ==
    \/ \E c \in Closures :
          \/ \E ps \in Pairs(Names \cup {Bare}) \cup {NoPair} : Call(c, FALSE, Nothing, ps)
          \/ \E g \in Givens : Call(c, TRUE, g, <<>>)
    \/ \E c \in Closures : BuiltinInline(c)
    \/ Return \/ InlineReturn \/ Yield
    \/ \E k \in DOMAIN frames : Throw(k)

OfScopes ==
    \/ \E ps \in Pairs(Names) \cup {NoPair} :
          Popl(ps) \/ \E ok \in BOOLEAN : Pushl(ps, ok)
    \/ \E c \in Closures, ps \in Pairs(Names) : Let(c, ps) \/ Lambda(c, ps)
    \/ \E c, d \in Closures : LetThis(c, d) \/ LambdaThis(c, d)
    \/ \E c \in Closures, n \in Names, v \in Values \ {Null} : SetInClosure(c, n, v)

\* The bounds of the model: MaxSteps steps, pushl to lambda (OfScopes) within the
\* first MaxScopeSteps of them, MaxFrames activations that run or wait.
Next ==
    /\ steps < MaxSteps /\ steps' = steps + 1
    /\ OfVariables \/ OfActivations \/ (steps < MaxScopeSteps /\ OfScopes)
    /\ Cardinality(AllFrames(frames, suspended)') <= MaxFrames

Spec == Init /\ [][Next]_vars

-----------------------------------------------------------------------------
(* Properties.                                                             *)

BindingAt(p) == mem.tables[p[1]][p[2]]

(* Two places share a variable exactly when the script made them share it  *)
(* (by reference, \$x, let), and every place shows the value that was      *)
(* assigned last through any of them: taking references, boxing, watching, *)
(* calls, yields, throws, and the loss of scopes change nothing of that.   *)
SharedAsAsked ==
    mem.vars = {Variable({p} \cup {q \in Bound(mem) :
                                      /\ BindingAt(p).cell # None
                                      /\ BindingAt(q).cell = BindingAt(p).cell},
                         ValueOf(mem, BindingAt(p))) : p \in Bound(mem)}

(* Activations that run or wait have at least one local scope, ordinary    *)
(* ones an array of their own, and no table serves twice: as the local     *)
(* scope of two arrays, or as a local scope and something else.            *)
ScopesOwned ==
    LET live == AllFrames(frames, suspended)
        ordinary == {f \in live : f.closure \notin Inlines}
        uses(t) == {p \in (DOMAIN arrays) \X (1..MaxScopes) :
                       p[2] \in DOMAIN arrays[p[1]] /\ arrays[p[1]][p[2]] = t}
    IN  /\ \A f \in live : arrays[f.locals] # <<>>
        /\ \A f, g \in ordinary : f.locals = g.locals => f = g
        /\ \A t \in Tables : Cardinality(uses(t)) <= 1
        /\ \A f \in live : \A t \in {f.scope, f.slots, Globals} : uses(t) = {}

(* Whatever assigns a watched variable, under whatever name or as an       *)
(* argument, reports the value it gets: the last report is its value.      *)
WatchesReport ==
    \A c \in Cells : mem.cells[c].watched => mem.cells[c].reported = mem.cells[c].value

=============================================================================
