------------------------------ MODULE Emitter ------------------------------
(***************************************************************************)
(* The header emitter of the Sandboxed API generator (clang_generator/    *)
(* emitter.cc).  An Emitter collects the types a library's API depends on *)
(* (AddTypeDeclarations) and one method per function (AddFunction), then  *)
(* renders the header (EmitHeader).  Declarations are records standing   *)
(* for the Clang AST nodes; the header is a sequence of tokens, one per  *)
(* construct the code prints (guard, namespace open and close, a type,   *)
(* a method); identifiers are strings built as the code builds them,     *)
(* since the properties are about them.  clang-format may fail.          *)
(***************************************************************************)
EXTENDS Integers, SequencesExt, Functions, TLC

CONSTANTS
  Letters,     \* the letters of a file name, each to its upper case
  Digits,      \* its digits; any other character is punctuation
  Decls,       \* the clang::TypeDecl the generator may pass
  Functions,   \* the clang::FunctionDecl the generator may pass
  Options,     \* the GeneratorOptions EmitHeader may be given
  FileChars,   \* the characters out_file names are made of
  InternalNs,  \* the namespace names that end in "_internal"
  MaxCalls     \* bound on the calls made to one Emitter

Null == [null |-> TRUE]   \* a nullptr in the type_decls vector

(* The Abseil types the generated header already includes (line 470).   *)
AbslIncluded ==
  {"CordMemoryAccounting", "Duration", "LogEntry", "LogSeverity", "Span",
   "StatusCode", "StatusToStringMode", "SynchLocksHeld", "SynchWaitParams",
   "Time", "string_view", "tid_t"}

-----------------------------------------------------------------------------
(* GetIncludeGuard: letters upper-cased, digits kept, every run of other *)
(* characters one '_', "SAPI_" before a leading non-letter, a final '_'. *)
(* The name for an empty out_file stands for                              *)
(* SANDBOXED_API_GENERATED_HEADER_<16 hex digits>_.                        *)
SapiPrefix == <<"S", "A", "P", "I", "_">>
RandomGuard == <<"S", "_", "0", "_">>

GuardChar(guard, c) ==
  IF c \in DOMAIN Letters THEN Append(guard, Letters[c])
  ELSE LET g == IF guard = <<>> THEN SapiPrefix ELSE guard
       IN IF c \in Digits THEN Append(g, c)
          ELSE IF Last(g) # "_" THEN Append(g, "_") ELSE g

GetIncludeGuard(filename) ==
  IF filename = <<>> THEN RandomGuard
  ELSE LET g == FoldLeft(GuardChar, <<>>, filename)
       IN IF Last(g) = "_" THEN g ELSE Append(g, "_")

(* A macro name a C++ program may define: a letter first, then letters,  *)
(* digits and single underscores (a double one is reserved).             *)
IsMacroName(g) ==
  /\ g # <<>> /\ g[1] \in Range(Letters)
  /\ \A k \in DOMAIN g : g[k] \in Range(Letters) \cup Digits \cup {"_"}
  /\ \A k \in 1..Len(g) - 1 : ~(g[k] = "_" /\ g[k + 1] = "_")

-----------------------------------------------------------------------------
(* GetSpelling: the anonymous tag of a typedef is printed with it; a C++ *)
(* class that is not C-like is only forward-declared, with its template  *)
(* parameters; anything else is printed as declared.                     *)
GetSpelling(d) ==
  CASE d.kind = "typedef_anon" -> [form |-> "typedef", name |-> d.name, tmpl |-> FALSE]
    [] d.kind = "cxx_record"   -> [form |-> "forward", name |-> d.name, tmpl |-> d.tmpl]
    [] OTHER                   -> [form |-> "print", name |-> d.name, tmpl |-> FALSE]

(* The filter of EmitType: system headers, std, __gnu_cxx, sapi, Abseil  *)
(* internals and the Abseil types included anyway are not emitted.       *)
Filtered(d) ==
  \/ d = Null
  \/ d.system
  \/ /\ d.ns # <<>>
     /\ \/ d.ns[1] \in {"std", "__gnu_cxx", "sapi"}
        \/ d.ns[1] = "absl" /\ Len(d.ns) > 1 /\ d.ns[2] \in InternalNs
        \/ d.ns[1] = "absl" /\ d.name \in AbslIncluded

(* The RenderedType of a declaration: (namespace path, spelling).        *)
Rendered(d) == [ns |-> d.ns, spelling |-> GetSpelling(d)]

-----------------------------------------------------------------------------
(* GetParamName: the parameter's name with '_' appended "to avoid        *)
(* collisions", or unnamed<index>_.                                       *)
GetParamName(p, index) ==
  IF p.name # "" THEN p.name \o "_" ELSE "unnamed" \o ToString(index) \o "_"

IsPointerOrReference(p) == p.type = "ptr"

(* The method EmitFunction prints: its name, its parameters, and the     *)
(* locals of its body: v_ret_, then v_<param> for every parameter passed *)
(* by value.                                                              *)
Method(f) ==
  LET named == [k \in DOMAIN f.params |->
                 [p |-> f.params[k], name |-> GetParamName(f.params[k], k - 1)]]
      held  == SelectSeq(named, LAMBDA x : ~IsPointerOrReference(x.p))
  IN [name   |-> f.name,
      params |-> [k \in DOMAIN named |-> named[k].name],
      locals |-> <<"v_ret_">> \o [j \in DOMAIN held |-> "v_" \o held[j].name]]

Cancelled == [ok |-> FALSE, code |-> "cancelled"]
Internal  == [ok |-> FALSE, code |-> "internal"]

(* EmitFunction: a record returned by value cancels; then the prototype  *)
(* comment, whose clang-format may fail; then a record parameter cancels. *)
EmitFunction(f) ==
  IF f.ret = "record" THEN {Cancelled}
  ELSE {Internal} \cup
       IF \E k \in DOMAIN f.params : f.params[k].type = "record" THEN {Cancelled}
       ELSE {[ok |-> TRUE, code |-> "ok", method |-> Method(f)]}

-----------------------------------------------------------------------------
(* The header as tokens.  The namespace of a RenderedType is its path;   *)
(* StrJoin(path, "::") is one-to-one on paths of named namespaces.       *)
Tok(kind, x) == [t |-> kind, v |-> x]

(* Lines 396-413: a namespace is closed and another opened whenever the *)
(* namespace of the next rendered type differs from the last one.       *)
(* Mutation: the namespace still open after the loop is not closed.      *)
RECURSIVE TypeDeclsNoFinalClose(_, _)
TypeDeclsNoFinalClose(rts, last) ==
  IF rts = <<>> THEN <<>>
  ELSE LET rt == Head(rts)
           switch == IF last = rt.ns THEN <<>>
                     ELSE (IF last # <<>> THEN <<Tok("ns_close", last)>> ELSE <<>>) \o
                          (IF rt.ns # <<>> THEN <<Tok("ns_open", rt.ns)>> ELSE <<>>)
       IN switch \o <<Tok("type", rt.spelling)>> \o TypeDeclsNoFinalClose(Tail(rts), rt.ns)

RECURSIVE TypeDecls(_, _)
TypeDecls(rts, last) ==
  IF rts = <<>> THEN (IF last # <<>> THEN <<Tok("ns_close", last)>> ELSE <<>>)
  ELSE LET rt == Head(rts)
           switch == IF last = rt.ns THEN <<>>
                     ELSE (IF last # <<>> THEN <<Tok("ns_close", last)>> ELSE <<>>) \o
                          (IF rt.ns # <<>> THEN <<Tok("ns_open", rt.ns)>> ELSE <<>>)
       IN switch \o <<Tok("type", rt.spelling)>> \o TypeDecls(Tail(rts), rt.ns)

(* ::sapi::EmitHeader.  The include of the embedded sandboxee's header   *)
(* is one token: how embed_dir is turned into its path is left out.      *)
EmitHeaderText(fns, rts, o) ==
  LET guard == GetIncludeGuard(o.out_file)
      embed == o.embed_name # ""
      wrap  == o.namespace # <<>>
  IN <<Tok("guard_open", guard)>>
     \o (IF embed THEN <<Tok("embed_include", o.embed_name)>> ELSE <<>>)
     \o (IF wrap THEN <<Tok("ns_open", o.namespace)>> ELSE <<>>)
     \o TypeDecls(rts, <<>>)
     \o (IF embed THEN <<Tok("embed_class", o.name)>> ELSE <<>>)
     \o <<Tok("class_open", o.name)>>
     \o [k \in DOMAIN fns |-> Tok("method", fns[k])]
     \o <<Tok("class_close", o.name)>>
     \o (IF wrap THEN <<Tok("ns_close", o.namespace)>> ELSE <<>>)
     \o <<Tok("guard_close", guard)>>

(* The stack of open namespaces, and whether every close matched.        *)
NestStep(acc, tk) ==
  CASE tk.t = "ns_open" -> [acc EXCEPT !.open = Append(@, tk.v)]
    [] tk.t = "ns_close" ->
         IF acc.open # <<>> /\ Last(acc.open) = tk.v
         THEN [acc EXCEPT !.open = Front(@)] ELSE [acc EXCEPT !.ok = FALSE]
    [] OTHER -> acc
Nesting(h) == FoldLeft(NestStep, [open |-> <<>>, ok |-> TRUE], h)

(* Every namespace the header opens it closes, innermost first, and the  *)
(* k-th rendered type is declared inside exactly the wrapping namespace  *)
(* of the options and its own.                                           *)
TypesInTheirNamespaces(rts, o) ==
  LET h  == EmitHeaderText(<<>>, rts, o)
      at == SelectSeq([k \in DOMAIN h |-> k], LAMBDA k : h[k].t = "type")
  IN /\ Nesting(h).ok /\ Nesting(h).open = <<>>
     /\ \A j \in DOMAIN rts :
          Nesting(SubSeq(h, 1, at[j] - 1)).open =
            (IF o.namespace # <<>> THEN <<o.namespace>> ELSE <<>>) \o
            (IF rts[j].ns # <<>> THEN <<rts[j].ns>> ELSE <<>>)

(* Checked by TLC as it loads the module, over every out_file of up to  *)
(* three characters: the include guard is a macro name a program may    *)
(* define.                                                               *)
ASSUME \A fn \in BoundedSeq(FileChars, 3) : IsMacroName(GetIncludeGuard(fn))

-----------------------------------------------------------------------------
VARIABLES
  renderedTypes,             \* rendered_types_
  renderedTypesOrdered,      \* rendered_types_ordered_
  renderedFunctions,         \* rendered_functions_ (qualified names)
  renderedFunctionsOrdered,  \* rendered_functions_ordered_
  status,                    \* the status the last call returned
  header,                    \* the last header EmitHeader returned
  calls                      \* calls made so far

vars == <<renderedTypes, renderedTypesOrdered, renderedFunctions,
          renderedFunctionsOrdered, status, header, calls>>

EmitterTypeOK ==
  /\ renderedTypes \subseteq {Rendered(d) : d \in Decls}
  /\ renderedFunctions \subseteq {f.qname : f \in Functions}
  /\ status \in {"ok", "cancelled", "internal"}
  /\ calls \in 0..MaxCalls

EmitterInit ==
  /\ renderedTypes = {} /\ renderedTypesOrdered = <<>>
  /\ renderedFunctions = {} /\ renderedFunctionsOrdered = <<>>
  /\ status = "ok" /\ header = <<>> /\ calls = 0

Call == calls < MaxCalls /\ calls' = calls + 1

(* Emitter::EmitType on one declaration of the vector.                   *)
EmitType(acc, d) ==
  IF Filtered(d) \/ Rendered(d) \in acc.set THEN acc
  ELSE [set |-> acc.set \cup {Rendered(d)}, seq |-> Append(acc.seq, Rendered(d))]

AddTypeDeclarations(decls) ==
  /\ Call
  /\ LET r == FoldLeft(EmitType, [set |-> renderedTypes, seq |-> renderedTypesOrdered], decls)
     IN renderedTypes' = r.set /\ renderedTypesOrdered' = r.seq
  /\ UNCHANGED <<renderedFunctions, renderedFunctionsOrdered, status, header>>

(* The qualified name is recorded before EmitFunction runs, whatever it  *)
(* returns.                                                              *)
AddFunction(f) ==
  /\ Call
  /\ IF f.qname \in renderedFunctions
     THEN status' = "ok" /\ UNCHANGED <<renderedFunctions, renderedFunctionsOrdered>>
     ELSE /\ renderedFunctions' = renderedFunctions \cup {f.qname}
          /\ \E r \in EmitFunction(f) :
               /\ status' = r.code
               /\ renderedFunctionsOrdered' =
                    IF r.ok THEN Append(renderedFunctionsOrdered, r.method)
                    ELSE renderedFunctionsOrdered
  /\ UNCHANGED <<renderedTypes, renderedTypesOrdered, header>>

(* Emitter::EmitHeader: the text, then clang-format, which may fail.     *)
EmitHeader(o) ==
  /\ Call
  /\ \/ header' = EmitHeaderText(renderedFunctionsOrdered, renderedTypesOrdered, o)
        /\ status' = "ok"
     \/ status' = "internal" /\ UNCHANGED header
  /\ UNCHANGED <<renderedTypes, renderedTypesOrdered, renderedFunctions,
                 renderedFunctionsOrdered>>

Done == calls = MaxCalls /\ UNCHANGED vars

EmitterNext ==
  \/ \E decls \in BoundedSeq(Decls \cup {Null}, 2) : AddTypeDeclarations(decls)
  \/ \E f \in Functions : AddFunction(f)
  \/ \E o \in Options : EmitHeader(o)
  \/ Done

EmitterSpec == EmitterInit /\ [][EmitterNext]_vars

-----------------------------------------------------------------------------
(* The header EmitHeader prints from the current state, whatever the     *)
(* options, is well formed: rendered_types_ordered_ lists each element   *)
(* of rendered_types_ exactly once (EmitType's emplace-then-push_back    *)
(* over vectors with repeats and nullptrs, across calls); every          *)
(* namespace opened is closed, innermost first, with each type declared  *)
(* inside exactly the wrapping namespace and its own (the last_ns_name   *)
(* switching of lines 396-413); and the last header returned nests.      *)
HeaderWellFormed ==
  /\ IsInjective(renderedTypesOrdered)
  /\ Range(renderedTypesOrdered) = renderedTypes
  /\ \A o \in Options : TypesInTheirNamespaces(renderedTypesOrdered, o)
  /\ header # <<>> => Nesting(header).ok /\ Nesting(header).open = <<>>

(* The names a generated method declares are distinct and none hides the *)
(* member sandbox_ its body calls through: the parameters, v_ret_, and   *)
(* the v_<param> holders of the by-value parameters.  GetParamName       *)
(* appends '_' "to avoid collisions" (line 262); about that suffix, the  *)
(* unnamed<index>_ names and the v_ prefix of EmitFunction.              *)
LocalsDistinct ==
  \A k \in DOMAIN renderedFunctionsOrdered :
    LET m == renderedFunctionsOrdered[k]
    IN IsInjective(<<"sandbox_">> \o m.params \o m.locals)
=============================================================================
