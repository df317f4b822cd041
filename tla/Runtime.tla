-------------------------------- MODULE Runtime -------------------------------
(* module_exec: the state of the process that an import of the extension sets  *)
(* up, that later imports of it find there, and that a first import which      *)
(* fails takes down again.  Another import is one after the module was taken   *)
(* out of sys.modules; the import lock of an interpreter lets one run at a     *)
(* time, and the threads of the program go on meanwhile.  The environment is   *)
(* read where the code reads it, and the program may change it in between.     *)
EXTENDS Naturals

CONSTANTS Interpreters, NoInterpreter,
          Allocators,            \* what PYPCRE_ALLOCATOR may choose
          MaxImports             \* bound on the imports

ASSUME RuntimeAssumption == NoInterpreter \notin Interpreters

VARIABLES primary_interpreter,
          module_fully_initialized,
          settings,     \* what the environment has set: see NotSet
          up,           \* the subsystems that are there
          import,       \* the import that runs
          imports,
          first         \* history: the settings when the first import was done

runtimeVars == <<primary_interpreter, module_fully_initialized, settings, up, import, imports, first>>

Subsystems == {"pattern cache", "memory", "errors", "caches"}

\* The values of the variables before the first import, and after its failure.
NotSet == [serial |-> FALSE, contexts |-> TRUE, patterns |-> "thread", strategy |-> "thread",
           allocator |-> "none"]

NoImport == [pc |-> "none"]

RuntimeInit ==
  /\ primary_interpreter = NoInterpreter
  /\ module_fully_initialized = FALSE
  /\ settings = NotSet
  /\ up = {}
  /\ import = NoImport
  /\ imports = 0
  /\ first = NotSet

\* The first compare-and-exchange; another interpreter gets an ImportError.
Import(i) ==
  /\ import = NoImport /\ imports < MaxImports
  /\ imports' = imports + 1
  /\ IF primary_interpreter \in {NoInterpreter, i}
     THEN /\ primary_interpreter' = i
          /\ import' = [pc |-> "jit support", first_init |-> ~module_fully_initialized, mode |-> "thread"]
     ELSE UNCHANGED <<primary_interpreter, import>>
  /\ UNCHANGED <<module_fully_initialized, settings, up, first>>

FirstInit == import.first_init
On(pc) == import.pc = pc
Continue(pc) == import' = [import EXCEPT !.pc = pc]

\* jit_support_initialize: a lock where PYPCRE_FORCE_JIT_LOCK asks for one.
JitSupport ==
  /\ On("jit support")
  /\ \E forced \in BOOLEAN :
       settings' = IF FirstInit THEN [settings EXCEPT !.serial = @ \/ forced] ELSE settings
  /\ Continue("context cache")
  /\ UNCHANGED <<primary_interpreter, module_fully_initialized, up, imports, first>>

\* Mutant: every import sets the toggle.
ContextCacheAnyTime ==
  /\ On("context cache")
  /\ \E disabled \in BOOLEAN : settings' = [settings EXCEPT !.contexts = ~disabled]
  /\ Continue("pattern cache")
  /\ UNCHANGED <<primary_interpreter, module_fully_initialized, up, imports, first>>

ContextCache ==
  /\ On("context cache")
  /\ \E disabled \in BOOLEAN :
       settings' = IF FirstInit THEN [settings EXCEPT !.contexts = ~disabled] ELSE settings
  /\ Continue("pattern cache")
  /\ UNCHANGED <<primary_interpreter, module_fully_initialized, up, imports, first>>

\* PYPCRE_CACHE_PATTERN_GLOBAL is read by every import, and kept for the caches.
PatternCache ==
  /\ On("pattern cache")
  /\ \E mode \in {"global", "thread"} :
       /\ import' = [import EXCEPT !.pc = "types", !.mode = mode]
       /\ settings' = IF FirstInit THEN [settings EXCEPT !.patterns = mode] ELSE settings
  /\ up' = IF FirstInit THEN up \union {"pattern cache"} ELSE up
  /\ UNCHANGED <<primary_interpreter, module_fully_initialized, imports, first>>

\* PyType_Ready of the three types; it can only fail.
Types ==
  /\ On("types")
  /\ Continue("memory")
  /\ UNCHANGED <<primary_interpreter, module_fully_initialized, settings, up, imports, first>>

\* pcre_memory_initialize: the choice is made once.
Memory ==
  /\ On("memory")
  /\ \E allocator \in Allocators :
       settings' = IF "memory" \in up THEN settings ELSE [settings EXCEPT !.allocator = allocator]
  /\ up' = up \union {"memory"}
  /\ Continue("errors")
  /\ UNCHANGED <<primary_interpreter, module_fully_initialized, imports, first>>

pcre_error_init ==
  /\ On("errors")
  /\ up' = up \union {"errors"}
  /\ Continue("caches")
  /\ UNCHANGED <<primary_interpreter, module_fully_initialized, settings, imports, first>>

\* Mutant: the strategy follows the environment of the day.
CachesAnyTime ==
  /\ On("caches")
  /\ settings' = [settings EXCEPT !.strategy = import.mode]
  /\ up' = up \union {"caches"}
  /\ Continue("objects")
  /\ UNCHANGED <<primary_interpreter, module_fully_initialized, imports, first>>

\* cache_initialize: nothing where cache_initialized is set.
cache_initialize ==
  /\ On("caches")
  /\ settings' = IF "caches" \in up THEN settings ELSE [settings EXCEPT !.strategy = import.mode]
  /\ up' = up \union {"caches"}
  /\ Continue("objects")
  /\ UNCHANGED <<primary_interpreter, module_fully_initialized, imports, first>>

\* The rest of the attributes of the module.
Objects ==
  /\ On("objects")
  /\ module_fully_initialized' = TRUE
  /\ first' = IF FirstInit THEN settings ELSE first
  /\ import' = NoImport
  /\ UNCHANGED <<primary_interpreter, settings, up, imports>>

\* What a failure at a step takes down, by the label it jumps to: the step's own
\* half done work too, but not that of the types, and never the memory.
TakenDown(pc) ==
  CASE pc = "jit support"                -> {}
    [] pc \in {"pattern cache", "types"} -> {"pattern cache"}
    [] pc = "errors"                     -> {"pattern cache", "errors"}
    [] pc \in {"caches", "objects"}      -> {"pattern cache", "errors", "caches"}

\* pattern_cache_teardown, cache_teardown and jit_support_teardown reset these.
Reset(s, down) ==
  [s EXCEPT !.serial   = FALSE,
            !.patterns = IF "pattern cache" \in down THEN "thread" ELSE @,
            !.strategy = IF "caches" \in down THEN "thread" ELSE @]

\* A step that can fail fails, for want of memory or of a lock or a key.  In an
\* import that is not the first only what it adds to its module can.
Fail ==
  /\ import # NoImport
  /\ import.pc \in IF FirstInit THEN {"jit support", "pattern cache", "types", "errors", "caches", "objects"}
                   ELSE {"errors", "objects"}
  /\ LET down == TakenDown(import.pc) IN
     /\ up' = IF FirstInit THEN up \ down ELSE up
     /\ settings' = IF FirstInit THEN Reset(settings, down) ELSE settings
  /\ import' = NoImport
  /\ UNCHANGED <<primary_interpreter, module_fully_initialized, imports, first>>

RuntimeNext ==
  \/ \E i \in Interpreters : Import(i)
  \/ JitSupport \/ ContextCache \/ PatternCache \/ Types \/ Memory \/ pcre_error_init
  \/ cache_initialize \/ Objects \/ Fail

RuntimeSpec == RuntimeInit /\ [][RuntimeNext]_runtimeVars

-----------------------------------------------------------------------------

\* Once an import has succeeded, threads find every subsystem there and the
\* settings of that import, in the middle of a later import too, whatever the
\* environment says by then and wherever it fails; the native cache and the
\* caches of match data are of one mode; and a failed first import leaves
\* nothing behind that the next would take for its own but the allocator, whose
\* blocks outlive it (module_exec, pcre2.c:6331; its comments at 6324-6327,
\* 6357-6360, 6372-6373, 6387-6389 and 6454-6457).
RuntimeStaysWhole ==
  /\ module_fully_initialized =>
       /\ up = Subsystems
       /\ settings = first
       /\ settings.patterns = settings.strategy
  /\ ~module_fully_initialized /\ import = NoImport =>
       /\ up \subseteq {"memory"}
       /\ [settings EXCEPT !.contexts = NotSet.contexts, !.allocator = NotSet.allocator] = NotSet
==============================================================================
