----------------------------- MODULE MCEmitter -----------------------------
(* A library with a few declarations and functions for the Emitter.      *)
EXTENDS Emitter

MCLetters ==
  ("a" :> "A") @@ ("A" :> "A") @@ ("s" :> "S") @@ ("S" :> "S")
  @@ ("p" :> "P") @@ ("P" :> "P") @@ ("i" :> "I") @@ ("I" :> "I")

MCFileChars == {"a", "S", "1", ".", "_"}

Decl(sys, ns, name, kind, tmpl) ==
  [system |-> sys, ns |-> ns, name |-> name, kind |-> kind, tmpl |-> tmpl]

MCDecls ==
  { Decl(FALSE, <<>>, "Point", "c_record", FALSE),
    Decl(FALSE, <<"foo">>, "Vec", "cxx_record", TRUE),
    Decl(FALSE, <<"foo", "bar">>, "Cb", "typedef_anon", FALSE),
    Decl(TRUE, <<>>, "FILE", "c_record", FALSE),
    Decl(FALSE, <<"std">>, "string", "cxx_record", FALSE),
    Decl(FALSE, <<"absl", "base_internal">>, "Lock", "cxx_record", FALSE),
    Decl(FALSE, <<"absl">>, "Duration", "cxx_record", FALSE) }

Param(name, type) == [name |-> name, type |-> type]

(* compress(char* dst, size_t len); set(int ret); mix(int unnamed1, int); *)
(* make() returning a struct; use(struct Point p); foo::compress(int).    *)
MCFunctions ==
  { [qname |-> <<"compress">>, name |-> "compress", ret |-> "int",
     params |-> <<Param("dst", "ptr"), Param("len", "int")>>],
    [qname |-> <<"set">>, name |-> "set", ret |-> "void",
     params |-> <<Param("ret", "int")>>],
    [qname |-> <<"mix">>, name |-> "mix", ret |-> "int",
     params |-> <<Param("unnamed1", "int"), Param("", "int")>>],
    [qname |-> <<"make">>, name |-> "make", ret |-> "record", params |-> <<>>],
    [qname |-> <<"use">>, name |-> "use", ret |-> "int",
     params |-> <<Param("p", "record")>>],
    [qname |-> <<"foo", "compress">>, name |-> "compress", ret |-> "int",
     params |-> <<Param("level", "int")>>] }

(* The functions whose generated names do not collide. *)
MCFunctionsDistinct == {f \in MCFunctions : f.name \notin {"set", "mix"}}

MCOptions ==
  { [out_file |-> <<"a", ".", "S">>, namespace |-> <<>>, embed_name |-> "", name |-> "Api"],
    [out_file |-> <<>>, namespace |-> <<"sapi", "lib">>, embed_name |-> "lib", name |-> "Api"] }
====
