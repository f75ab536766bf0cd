----------------------------- MODULE Registers -----------------------------
(***************************************************************************)
(* The registers of plugins and components (register/register.go) and the  *)
(* loaders that fill them (proxy/plugin/modifier.go, and the same code in  *)
(* transport/http/client/plugin and transport/http/server/plugin).         *)
(*                                                                         *)
(* A Namespaced register holds Untyped ones, each a map under a lock of    *)
(* its own.  Register looks a namespace up and stores, or adds it, in two  *)
(* critical sections.  The code relies on its users for one thing: that a  *)
(* namespace is added by one goroutine only, here the one that runs Load.  *)
(* The plugins it loaded may go on to register from goroutines of theirs.  *)
(***************************************************************************)
EXTENDS Naturals, Sequences, FiniteSets

CONSTANTS Namespace, Name, NoValue, Default, Reader,
          Loader,    \* the goroutine of Load
          Writer,    \* Loader, and others that register
          requestNamespace, responseNamespace, \* those of modifiers
          Plugins,   \* how many files Scan found
          Contents,  \* what the files do: the registrations of a plugin
          Broken     \* or nothing, because it cannot be opened or used

Registration == Namespace \X Name

ASSUME RegistersAssumption ==
  /\ Loader \in Writer /\ NoValue \notin Writer /\ NoValue \notin Name
  /\ {requestNamespace, responseNamespace} \subseteq Namespace
  /\ Plugins \in Nat
  /\ Contents \subseteq Seq(Registration) /\ Broken \notin Seq(Registration)

VARIABLES data,      \* of the Namespaced register: references, 0 for none
          registers, \* the heap of Untyped registers
          writer,    \* the critical section each goroutine is about to enter
          op, ref,   \* its arguments and its variable register
          reader, key, found, \* the same for getModifier
          result,    \* what that returned
          plugin,    \* the contents of each file
          k, calls,  \* the plugin being opened, and how much it has registered
          loadedPlugins, errors

writerVars == <<writer, op, ref>>
readerVars == <<reader, key, found, result>>
loaderVars == <<plugin, k, calls, loadedPlugins, errors>>
registerVars == <<data, registers, writerVars, readerVars, loaderVars>>

\* What a goroutine registers is its own.
Empty == [n \in Name |-> NoValue]
NoCall == << >>

\* The registrations of one call of RegisterModifier.
RegisterModifier(name, appliesToRequest, appliesToResponse) ==
  (IF appliesToRequest THEN << <<requestNamespace, name>> >> ELSE << >>)
    \o (IF appliesToResponse THEN << <<responseNamespace, name>> >> ELSE << >>)

NoRegistration ==
  /\ data = [ns \in Namespace |-> 0]
  /\ registers = << >>
  /\ writer = [w \in Writer |-> "idle"]
  /\ op = [w \in Writer |-> NoCall]
  /\ ref = [w \in Writer |-> 0]
  /\ reader = [r \in Reader |-> "idle"]
  /\ key = [r \in Reader |-> NoCall]
  /\ found = [r \in Reader |-> 0]
  /\ result = [r \in Reader |-> NoValue]
  /\ k = 1 /\ calls = 0
  /\ loadedPlugins = 0 /\ errors = {}

AnyPlugins == plugin \in [1..Plugins -> Contents \cup {Broken}]

RegistersInit == NoRegistration /\ AnyPlugins

---------------------------------------------------------------------------
(* Namespaced.Register and AddNamespace.                                   *)

Enters(w, from, to) == writer[w] = from /\ writer' = [writer EXCEPT ![w] = to]

\* NewUntyped, and what is put into it before anybody else can see it.
Allocate(w, contents) == /\ registers' = Append(registers, contents)
                         /\ ref' = [ref EXCEPT ![w] = Len(registers) + 1]

\* The lookup, under the lock of data.
Register(w, ns, n) ==
  /\ op' = [op EXCEPT ![w] = <<ns, n>>]
  /\ IF data[ns] # 0
       THEN /\ Enters(w, "idle", "store")
            /\ ref' = [ref EXCEPT ![w] = data[ns]]
            /\ UNCHANGED registers
       ELSE /\ Enters(w, "idle", "publish")
            /\ Allocate(w, [Empty EXCEPT ![n] = w])
  /\ UNCHANGED data

\* Mutated form of AddNamespace: whether the namespace exists is not asked.
AddNamespaceAnew(w, ns) ==
  /\ op' = [op EXCEPT ![w] = <<ns, NoValue>>]
  /\ Enters(w, "idle", "publish")
  /\ Allocate(w, Empty)
  /\ UNCHANGED data

\* A namespace that exists is left alone.
AddNamespace(w, ns) ==
  /\ data[ns] = 0
  /\ op' = [op EXCEPT ![w] = <<ns, NoValue>>]
  /\ Enters(w, "idle", "publish")
  /\ Allocate(w, Empty)
  /\ UNCHANGED data

Returns(w) == /\ op' = [op EXCEPT ![w] = NoCall]
              /\ ref' = [ref EXCEPT ![w] = 0]

\* register.Register(name, v), under the lock of that register.
Store(w) == /\ Enters(w, "store", "idle")
            /\ registers' = [registers EXCEPT ![ref[w]][op[w][2]] = w]
            /\ Returns(w)
            /\ UNCHANGED data

\* n.data.Register(namespace, register)
Publish(w) == /\ Enters(w, "publish", "idle")
              /\ data' = [data EXCEPT ![op[w][1]] = ref[w]]
              /\ Returns(w)
              /\ UNCHANGED registers

---------------------------------------------------------------------------
(* getModifier, and the lookups of sd.Register and combinerRegister.       *)

GetOr(ns, v) == IF v = NoValue THEN Default[ns] ELSE v

GetNamespace(r, ns, n) ==
  /\ reader[r] = "idle"
  /\ IF data[ns] = 0
       THEN /\ result' = [result EXCEPT ![r] = GetOr(ns, NoValue)]
            /\ UNCHANGED <<reader, key, found>>
       ELSE /\ reader' = [reader EXCEPT ![r] = "get"]
            /\ key' = [key EXCEPT ![r] = <<ns, n>>]
            /\ found' = [found EXCEPT ![r] = data[ns]]
            /\ UNCHANGED result

GetName(r) ==
  /\ reader[r] = "get"
  /\ reader' = [reader EXCEPT ![r] = "idle"]
  /\ result' = [result EXCEPT ![r] = GetOr(key[r][1], registers[found[r]][key[r][2]])]
  /\ key' = [key EXCEPT ![r] = NoCall]
  /\ found' = [found EXCEPT ![r] = 0]

---------------------------------------------------------------------------
(* load and open                                                           *)

Opening == k <= Plugins /\ writer[Loader] = "idle"

\* Mutated form of Fails: load goes on to count the plugin.
FailsCounted == /\ k' = k + 1 /\ calls' = 0
                /\ errors' = errors \cup {k}
                /\ loadedPlugins' = loadedPlugins + 1
                /\ UNCHANGED plugin

\* The error of open is kept, and the next plugin is tried.
Fails == /\ k' = k + 1 /\ calls' = 0
         /\ errors' = errors \cup {k}
         /\ UNCHANGED <<plugin, loadedPlugins>>

\* pluginOpener, Lookup or the type assertion.
OpenFails == /\ Opening /\ plugin[k] = Broken
             /\ Fails
             /\ UNCHANGED <<data, registers, writerVars>>

\* open recovers from a panic; what was registered before it stays.
PluginPanics == /\ Opening /\ plugin[k] # Broken
                /\ Fails
                /\ UNCHANGED <<data, registers, writerVars>>

PluginRegisters ==
  /\ Opening /\ plugin[k] # Broken
  /\ calls < Len(plugin[k])
  /\ calls' = calls + 1
  /\ Register(Loader, plugin[k][calls + 1][1], plugin[k][calls + 1][2])
  /\ UNCHANGED <<plugin, k, loadedPlugins, errors>>

PluginLoaded == /\ Opening /\ plugin[k] # Broken
                /\ calls = Len(plugin[k])
                /\ k' = k + 1 /\ calls' = 0
                /\ loadedPlugins' = loadedPlugins + 1
                /\ UNCHANGED <<data, registers, writerVars, plugin, errors>>

---------------------------------------------------------------------------

Load == /\ OpenFails \/ PluginPanics \/ PluginRegisters \/ PluginLoaded
        /\ UNCHANGED readerVars

\* Before, between and after the plugins.
Adds == \E ns \in Namespace : /\ AddNamespace(Loader, ns)
                              /\ UNCHANGED <<readerVars, loaderVars>>

\* A goroutine of a plugin or of the program.
OthersRegister == \E w \in Writer \ {Loader} : \E ns \in Namespace, n \in Name :
                    /\ data[ns] # 0
                    /\ Register(w, ns, n)
                    /\ UNCHANGED <<readerVars, loaderVars>>

Stores == \E w \in Writer : /\ Store(w) \/ Publish(w)
                            /\ UNCHANGED <<readerVars, loaderVars>>

Gets == \E r \in Reader : /\ GetName(r) \/ \E ns \in Namespace, n \in Name : GetNamespace(r, ns, n)
                          /\ UNCHANGED <<data, registers, writerVars, loaderVars>>

RegistersNext == Load \/ Adds \/ OthersRegister \/ Stores \/ Gets

RegistersSpec == RegistersInit /\ [][RegistersNext]_registerVars

---------------------------------------------------------------------------

RegistersTypeOK ==
  /\ data \in [Namespace -> Nat]
  /\ registers \in Seq([Name -> Writer \cup {NoValue}])
  /\ writer \in [Writer -> {"idle", "store", "publish"}]
  /\ op \in [Writer -> {NoCall} \cup (Namespace \X (Name \cup {NoValue}))] /\ ref \in [Writer -> Nat]
  /\ reader \in [Reader -> {"idle", "get"}]
  /\ key \in [Reader -> {NoCall} \cup Registration] /\ found \in [Reader -> Nat]
  /\ plugin \in [1..Plugins -> Contents \cup {Broken}]
  /\ k \in 1..(Plugins + 1) /\ calls \in Nat
  /\ loadedPlugins \in Nat /\ errors \in SUBSET (1..Plugins)

\* What can be looked up.
Registered(ns) == IF data[ns] = 0 THEN Empty ELSE registers[data[ns]]

Atomic == INSTANCE AtomicRegister WITH
            store <- [ns \in Namespace |-> Registered(ns)], Value <- Writer

\* Although Register looks up and adds in two steps (register.go:32-42), and
\* getModifier looks up in two (modifier.go:43-57), while plugins are loaded
\* and others register and look up, every call takes effect at one moment, and
\* nothing that was registered disappears.
ImplementsRegister == Atomic!Spec

\* Whatever some plugins do, load (modifier.go:118-135) opens every one, counts
\* it as loaded or as an error, and all that a loaded one registered is found,
\* also what it registered for both requests and responses.
LoadIsAccounted ==
  /\ loadedPlugins + Cardinality(errors) = k - 1
  /\ \A j \in 1..(k - 1) :
       \/ j \in errors
       \/ /\ plugin[j] # Broken
          /\ \A c \in DOMAIN plugin[j] : Registered(plugin[j][c][1])[plugin[j][c][2]] # NoValue
=============================================================================
