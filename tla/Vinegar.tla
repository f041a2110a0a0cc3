------------------------------ MODULE Vinegar ------------------------------
(***************************************************************************)
(* Vinegar (rpyc/core/vinegar.py): how an exception raised by a handler is *)
(* raised again at the caller.  A class is [mod, name, bases]: the modules *)
(* and names are labels, bases are the built-in classes an except clause   *)
(* may name to catch it.  A raised exception is [cls, args, attrs]: its    *)
(* arguments and its public attributes, values or objects of Boxing.       *)
(* Classes that __new__ cannot make without arguments are left out.        *)
(***************************************************************************)
EXTENDS Boxing

StopIterationClass == [mod |-> "builtins", name |-> "StopIteration", bases |-> {"StopIteration"}]
EXC_STOP_ITERATION == Small(1)

Raised(cls, args, attrs) == [cls |-> cls, args |-> args, attrs |-> attrs]

\* Repr stands for the text of repr(obj).
Repr(obj) == Str("repr")
Dumped(obj) == IF dumpable(obj) THEN obj ELSE Repr(obj)

DumpException(exc) ==
    IF exc.cls = StopIterationClass THEN EXC_STOP_ITERATION
    ELSE Tuple(<<Tuple(<<Str(exc.cls.mod), Str(exc.cls.name)>>),
                 Tuple([i \in DOMAIN exc.args |-> Dumped(exc.args[i])]),
                 Tuple([i \in DOMAIN exc.attrs |->
                          Tuple(<<Str(exc.attrs[i][1]), Dumped(exc.attrs[i][2])>>)]),
                 Str("traceback")>>)

\* A class made up for one that is not known here.
Generic(mod, name) ==
    [mod |-> "rpyc.core.vinegar/" \o mod, name |-> mod \o "." \o name, bases |-> {"Exception"}]

\* local: config of the connection, the classes of the installed modules, and
\* the modules that are in sys.modules before the exception arrives
ClassFor(mod, name, local) ==
    LET modules == local.sys_modules \cup
                   (IF local.import_custom_exceptions THEN {c.mod : c \in local.installed} ELSE {})
        visible == IF local.instantiate_custom_exceptions THEN modules ELSE {"builtins"}
        found   == {c \in local.installed : c.mod = mod /\ c.name = name /\ mod \in visible}
    IN  IF found # {} THEN CHOOSE c \in found : TRUE ELSE Generic(mod, name)

\* _get_exception_class: the subclass that prints the remote traceback.
Derived(cls) == [mod |-> cls.mod, name |-> cls.name, bases |-> cls.bases]

LoadException(val, local) ==
    IF val = EXC_STOP_ITERATION THEN Raised(StopIterationClass, <<>>, <<>>)
    ELSE LET names == val.items[1].items
             attrs == val.items[3].items
         IN  Raised(Derived(ClassFor(names[1].label, names[2].label, local)),
                    val.items[2].items,
                    [i \in DOMAIN attrs |-> <<attrs[i].items[1].label, attrs[i].items[2]>>])

\* What the caller of a request that raised exc gets to raise.
Rethrown(exc, local) == LoadException(Transfer(1, DumpException(exc)), local)

=============================================================================
