------------------------------- MODULE Patching -------------------------------
(***************************************************************************)
(* Methods of other packages' classes replaced by traced ones, and put     *)
(* back: the query methods of the catalog tools (otel/catalog.py), render  *)
(* of the viewlet and portlet managers (otel/rendering.py) and setstate of *)
(* the ZODB connection (otel/zodb.py).                                     *)
(*                                                                         *)
(* A class has a dictionary of its own methods and inherits from a base    *)
(* class.  A callable is the function that was defined and the wrappers    *)
(* around it, innermost first.  Other packages patch the same methods, at  *)
(* any time, and do not take their patches back.                           *)
(***************************************************************************)
EXTENDS Integers, Sequences

CONSTANTS
    Classes,     \* all classes
    Base,        \* the base class of each (itself, if it has none)
    Tools,       \* the catalog tools
    Managers,    \* the viewlet and portlet managers
    Connection,  \* the ZODB connection
    Defines,     \* the sets of methods that classes may define
    Installed,   \* the combinations of their packages that may be installed
    MaxForeign   \* bound on the patches of other packages

Patchable == Tools \cup Managers \cup {Connection}

QueryMethods == {"searchResults", "unrestrictedSearchResults"}
Methods == QueryMethods \cup {"__call__", "render", "setstate"}

\* Subclasses of a patched class are not represented: they inherit or call it.
ASSUME ClassAssumption ==
    /\ Patchable \subseteq Classes /\ MaxForeign \in Nat
    /\ Tools \cap Managers = {} /\ Connection \notin Tools \cup Managers
    /\ Installed \subseteq SUBSET Patchable
    /\ Defines \subseteq [Classes -> SUBSET Methods]
    /\ Base \in [Classes -> Classes]
    /\ \A c \in Classes : Base[c] = c \/ Base[c] \notin Patchable

ClassesOf == [catalog |-> Tools, rendering |-> Managers, setstate |-> {Connection}]
Packages == DOMAIN ClassesOf
Targets(c) ==
    CASE c \in Tools -> QueryMethods
      [] c \in Managers -> {"render"}
      [] c = Connection -> {"setstate"}
      [] OTHER -> {}

VARIABLES
    own,         \* the dictionary of each class
    importable,  \* the patchable classes whose packages are installed
    saved,       \* _patched, _setstate_patched: per class and method, oldest first
    foreign      \* patches of other packages so far

patches == <<own, importable, saved, foreign>>

Missing == [function |-> <<>>, layers |-> <<>>]
Defined(c, m) == [function |-> <<c, m>>, layers |-> <<>>]
Wrap(f, layer) == [f EXCEPT !.layers = Append(@, layer)]

\* Attribute lookup on the class.
Lookup(o, c, m) == IF o[c][m] # Missing THEN o[c][m] ELSE o[Base[c]][m]
Resolve(c, m) == Lookup(own, c, m)

\* Layers: ours, and a foreign wrapper with or without its target's __dict__.
Ours(m) == <<"traced", m>>
Plain(m) == <<"plain", m>>
Copying(m) == <<"copying", m>>

Traced(f) == {i \in DOMAIN f.layers : f.layers[i][1] = "traced"}

\* getattr(f, "_otel_wrapped", False)
Marked(f) ==
    \E i \in Traced(f) : \A j \in DOMAIN f.layers : j > i => f.layers[j][1] = "copying"

\* A tool may define __call__ as another name of its searchResults.
Dictionary(c, names, alias) ==
    [m \in Methods |->
        IF m \notin names THEN Missing
        ELSE IF m = "__call__" /\ c \in alias THEN Defined(c, "searchResults")
        ELSE Defined(c, m)]

PatchingInit ==
    /\ \E names \in Defines, alias \in SUBSET Tools :
          /\ \A c \in alias : {"searchResults", "__call__"} \subseteq names[c]
          /\ own = [c \in Classes |-> Dictionary(c, names[c], alias)]
    /\ importable \in Installed
    /\ saved = [c \in Classes |-> [m \in Methods |-> <<>>]]
    /\ foreign = 0

-----------------------------------------------------------------------------
(* Instrumenting.                                                          *)

Logged(p) == \E c \in ClassesOf[p], m \in Methods : saved[c][m] # <<>>

\* "if _patched: return", which setstate's patch does not have.
Reached(p) == IF p # "setstate" /\ Logged(p) THEN {} ELSE ClassesOf[p] \cap importable

Fresh(c) == {m \in Targets(c) : Resolve(c, m) # Missing /\ ~Marked(Resolve(c, m))}

\* cls.__dict__.get("__call__") is original_search
IsAlias(c) ==
    "searchResults" \in Fresh(c) /\ own[c]["__call__"] = Resolve(c, "searchResults")

\* Mutant: __call__ is not pointed at the wrapper.
ReplacedButCall(c) == Fresh(c)

\* Mutant: the mark is not looked at.
ReplacedMarked(c) ==
    {m \in Targets(c) : Resolve(c, m) # Missing}
        \cup (IF IsAlias(c) THEN {"__call__"} ELSE {})

Replaced(c) == Fresh(c) \cup (IF IsAlias(c) THEN {"__call__"} ELSE {})

\* Mutant: the wrappers call what the loop ended with.
WrapperOfLast(c, m) ==
    LET last == "unrestrictedSearchResults"
    IN  Wrap(Resolve(c, IF c \in Tools /\ Resolve(c, last) # Missing THEN last ELSE m), Ours(m))

Wrapper(c, m) ==
    Wrap(Resolve(c, m), Ours(IF m = "__call__" THEN "searchResults" ELSE m))

Instrument(P) ==
    LET reached == UNION {Reached(p) : p \in P}
        now(c, m) == c \in reached /\ m \in Replaced(c)
    IN  /\ own' = [c \in Classes |-> [m \in Methods |->
                      IF now(c, m) THEN Wrapper(c, m) ELSE own[c][m]]]
        /\ saved' = [c \in Classes |-> [m \in Methods |->
                      IF now(c, m) THEN Append(saved[c][m], Resolve(c, m))
                                  ELSE saved[c][m]]]
        /\ UNCHANGED <<importable, foreign>>

\* Mutant: the first entry found is the last one written back.
RestoredLast(c, m) == saved[c][m][Len(saved[c][m])]

\* Popped from the end, the oldest entry is written back last.
Restored(c, m) == saved[c][m][1]

Uninstrument(p) ==
    /\ own' = [c \in Classes |-> [m \in Methods |->
                  IF c \in ClassesOf[p] /\ saved[c][m] # <<>> THEN Restored(c, m)
                  ELSE own[c][m]]]
    /\ saved' = [c \in Classes |-> [m \in Methods |->
                  IF c \in ClassesOf[p] THEN <<>> ELSE saved[c][m]]]
    /\ UNCHANGED <<importable, foreign>>

\* Another package wraps what it finds.
ForeignPatch(c, m, layer) ==
    /\ foreign < MaxForeign /\ Resolve(c, m) # Missing
    /\ layer \in {Plain(m), Copying(m)}
    /\ own' = [own EXCEPT ![c][m] = Wrap(Resolve(c, m), layer)]
    /\ foreign' = foreign + 1
    /\ UNCHANGED <<importable, saved>>

Patch ==
    \/ \E p \in Packages : Instrument({p}) \/ Uninstrument(p)
    \/ \E c \in Classes, m \in Methods, kind \in {"plain", "copying"} :
          ForeignPatch(c, m, <<kind, m>>)

-----------------------------------------------------------------------------

PatchingTypeOK ==
    /\ importable \subseteq Patchable
    /\ \A c \in Classes, m \in Methods : saved[c][m] # <<>> => own[c][m] # Missing

(* A call is traced once, however often the pipeline is built and whatever  *)
(* others have patched.  Only setstate, registered again, can be timed      *)
(* twice: around a foreign wrapper that hides the first one.                *)
TracedAtMostOnce ==
    \A c \in Classes, m \in Methods : \A i, j \in Traced(Resolve(c, m)) :
        i < j => /\ c = Connection
                 /\ \E k \in i..j : Resolve(c, m).layers[k] = Plain(m)

(* No wrapper is forgotten: a class holds one exactly while the log has the *)
(* entry that will take it off.                                             *)
WrappersAreLogged ==
    \A c \in Classes, m \in Methods :
        Traced(own[c][m]) # {} <=> saved[c][m] # <<>>

\* What remains of a callable without tracing: the function, and the layers
\* of others where they are.
Untraced(f) ==
    [function |-> f.function,
     layers |-> {<<i, f.layers[i]>> : i \in DOMAIN f.layers \ Traced(f)}]

\* A foreign patch is on top of ours.
Covered(c, m) ==
    \E i \in Traced(own[c][m]), j \in DOMAIN own[c][m].layers :
        j > i /\ j \notin Traced(own[c][m])

(* catalog.py:4-5, "reversible": instrumenting and uninstrumenting, in any  *)
(* order, never change which function a call reaches; the exception is a    *)
(* foreign patch put on top, which goes when the wrapper below it goes.     *)
CallsTheSameFunction ==
    [][foreign' = foreign =>
         \A c \in Classes, m \in Methods :
            ~Covered(c, m) =>
                Untraced(Lookup(own', c, m)) = Untraced(Lookup(own, c, m))]_patches

(* catalog.py:56-58: while __call__ is the same object as searchResults, it *)
(* stays so, traced or not.                                                 *)
AliasesStayAliases ==
    [][foreign' = foreign =>
         \A c \in Tools :
            (own[c]["__call__"] # Missing /\ own[c]["__call__"] = own[c]["searchResults"])
                => own'[c]["__call__"] = own'[c]["searchResults"]]_patches

=============================================================================
