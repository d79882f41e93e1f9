---------------------------- MODULE MCConversion ----------------------------
(* Instances of Conversion for TLC.                                        *)
EXTENDS Conversion

CONSTANT MaxEntries  \* bound on the paths of an Ingress

AllHosts == {"a", "b"}

Paths == {<<>>, <<"x">>, <<"x", "y">>}

(* "/z" is nobody's, "/x/y/z" lies below every path, "/xy" begins as "/x". *)
AllRequests == Paths \union {<<"z">>, <<"x", "z">>, <<"x", "y", "z">>, <<"xy">>,
                                <<"v1.0">>, <<"v1.0", "x">>}

(* As in "/x/[a-z]+", "/x/?.+" and "/x/y|/z".                              *)
Word   == "[a-z]+"
Loose  == "?.+"
Either == "y|"

AllRegex == {Word, Loose, Either}

AllDotted == {"v1.0"}

Begins(segment, other) == segment = other \/ (segment = "x" /\ other = "xy")

(* ingress-nginx: what begins, to the character, with the path or with     *)
(* what the regular expression stands for.                                 *)
NginxTakes(pattern, path) ==
  LET TakesAll(segments) ==
        /\ Len(segments) <= Len(path)
        /\ \A i \in DOMAIN segments :
             \/ segments[i] \in {path[i], Word}
             \/ i = Len(segments) /\ Begins(segments[i], path[i])
  IN CASE Either \in ToSet(pattern) -> TakesAll(<<"x", "y">>) \/ TakesAll(<<"z">>)
       [] Loose \in ToSet(pattern)  -> TakesAll(Front(pattern))
       [] OTHER                     -> TakesAll(pattern)

Entry(host, type, path, port, service) ==
  [host |-> host, type |-> type, path |-> path, port |-> port, service |-> service]

(* Paths of one host: every type, both services, every kind of port,       *)
(* regular expressions, a rule without http.                               *)
EntriesOf(host) ==
  {Entry(host, type, path, "number", service) :
     type \in {"Exact", "Prefix"}, path \in Paths, service \in {"v1", "v2"}}
  \union {Entry(host, "ImplementationSpecific", path, "number", "v1") :
     path \in {<<"x">>, <<"v1.0">>, <<"x", Word>>, <<"x", Loose>>, <<"x", Either, "z">>,
               <<"v1.0", Word>>}}
  \union {Entry(host, "Prefix", <<"x">>, port, "v2") : port \in Ports}
  \union {Entry(host, "NoHTTP", <<>>, "none", None)}

(* A few paths of several hosts.                                           *)
EntriesAcross(hosts) ==
  {Entry(host, "Prefix", path, "number", service) :
     host \in hosts, path \in {<<>>, <<"x">>}, service \in {"v1", "v2"}}

Plain(entries, grpc, default) ==
  [grpc |-> grpc, defaultBackend |-> default, entries |-> entries, annotations |-> <<>>]

Upto(S) == UNION {[1..n -> S] : n \in 0..MaxEntries}

OneHost ==
  {Plain(e, grpc, default) :
     e \in Upto(EntriesOf("a")) \union Upto(EntriesOf(NoHost)),
     grpc \in BOOLEAN, default \in BOOLEAN}

TwoHosts == {Plain(e, FALSE, FALSE) : e \in Upto(EntriesAcross({"a", "b"}))}

Annotation(kind, seconds) == [kind |-> kind, seconds |-> seconds]

(* Any of these, in the order of their keys.                               *)
Chosen(list) ==
  {[i \in DOMAIN s |-> list[s[i]]] : s \in {SetToSortSeq(S, <) : S \in SUBSET DOMAIN list}}

Portable ==
  <<Annotation("affinity", 0), Annotation("cors", 0), Annotation("readTimeout", 30),
    Annotation("sendTimeout", 10), Annotation("rewrite", 0), Annotation("cookieName", 0),
    Annotation("header", 0)>>

Troublesome ==
  <<Annotation("requestTimeout", 60), Annotation("inert", 0),
    Annotation("readTimeout", Malformed), Annotation("sendTimeout", 20),
    Annotation("captures", 0), Annotation("unsupported", 0), Annotation("lost", 0)>>

(* Redirects, one filter of two annotations, a request timeout that is     *)
(* shorter than a backend's, or 0.                                         *)
Conflicting(seconds) ==
  <<Annotation("requestTimeout", seconds), Annotation("rewrite", 0), Annotation("redirect", 0),
    Annotation("readTimeout", 30), Annotation("sendTimeout", 10), Annotation("rewrite", 0)>>

Prefixed == {<<Entry("a", "Prefix", <<"x">>, "number", "v1")>>,
             <<Entry("a", "Prefix", <<>>, "named", "v1"),
               Entry("a", "ImplementationSpecific", <<"x">>, "number", "v2")>>,
             <<Entry("a", "Prefix", <<"x">>, "number", "v1"),
               Entry("a", "Exact", <<"x">>, "number", "v2")>>}

Annotated ==
  {[grpc |-> FALSE, defaultBackend |-> FALSE, entries |-> e, annotations |-> a] :
     e \in Prefixed, a \in Chosen(Portable) \union Chosen(Troublesome)
                       \union Chosen(Conflicting(20)) \union Chosen(Conflicting(0))}

NoPolicy == {{}}

(* None, and one that drops annotations of three sorts.                    *)
SomePolicies == NoPolicy \union {{"unsupported", "sendTimeout", "rewrite"}}

AllIngresses == OneHost \union Annotated
=============================================================================
