-------------------------- MODULE ConversionProofs --------------------------
(* Theorems about what a conversion makes of annotations and paths, for    *)
(* every Ingress and every policy.                                         *)
EXTENDS Conversion, FiniteSetTheorems, SequenceTheorems, WellFoundedInduction, TLAPS

-----------------------------------------------------------------------------
(* Annotations: the invariants speak of those translated so far.           *)

Translated == {i \in DOMAIN ing.annotations : ~ing.grpc /\ (pc = "annotations" => i < at)}

Kind(i) == ing.annotations[i].kind

KeptSoFar == {i \in Translated : Kind(i) \notin dropped}

(* The annotations of S that ask for a filter.                             *)
With(filter, S) == {i \in S : FiltersOf(ing.annotations[i]) = <<filter>>}

Positions(filter) == {j \in DOMAIN filters : filters[j] = filter}

(* A filter stands as often as annotations that were kept ask for it.      *)
CountInv ==
  \A filter \in Filters : Cardinality(Positions(filter)) = Cardinality(With(filter, KeptSoFar))

LongestOf(S, x) == IF S = {} THEN x = NoTimeout ELSE x \in S /\ \A n \in S : n <= x

(* The timeouts are the longest that were set for the backend and for the  *)
(* request.                                                                *)
BackendInv == LongestOf(SecondsOf({"readTimeout", "sendTimeout"}, KeptSoFar), effect.backend)

RequestInv == LongestOf(SecondsOf({"requestTimeout"}, KeptSoFar), effect.request)

(* What was translated shows or was reported.                              *)
NoticeInv ==
  \A i \in KeptSoFar :
    Kind(i) \in {"inert", "lost", "cookieName"} \/ InRules(ing.annotations[i])
      \/ <<"warning", "annotation", i>> \in issues

AnnotationsInv == CountInv /\ BackendInv /\ RequestInv /\ NoticeInv

-----------------------------------------------------------------------------
(* Paths: the invariants speak of the entries converted so far.            *)

Reached ==
  CASE pc = "annotations" -> 0 [] pc = "paths" -> at - 1 [] pc = "done" -> Len(ing.entries)

RuleOf(entry) ==
  [match |-> IF ing.grpc THEN EveryCall ELSE ConvertPath(entry), service |-> entry.service]

(* Where the rule for entry i stands.                                      *)
Place(i) == Cardinality(PathsUpto(i))

HostsInv == hostnames = {ing.entries[i].host : i \in 1..Reached} \ {NoHost}

(* A path that cannot be converted fails the Ingress; if there is none the *)
(* rules stand for the paths, one for one and in order.                    *)
RulesInv ==
  /\ Reached \in 0..Len(ing.entries)
  /\ ~ResultFailed =>
       /\ Len(rules) = Place(Reached)
       /\ \A i \in PathsUpto(Reached) :
            Convertible(ing.entries[i]) /\ rules[Place(i)] = RuleOf(ing.entries[i])
       /\ \A k \in DOMAIN rules : \E i \in PathsUpto(Reached) : k = Place(i)

(* Approximated paths are reported.                                        *)
ReportedInv ==
  \A i \in PathsUpto(Reached) : PathReported(ing.entries[i]) => Named(i)

(* Without a rule there is no route.                                       *)
EmptyInv == pc = "done" /\ rules = <<>> => ResultFailed

PathsInv == HostsInv /\ RulesInv /\ ReportedInv /\ EmptyInv

-----------------------------------------------------------------------------
(* Types.                                                                  *)

AnnotationType == [kind : AnnotationKinds, seconds : 0..Malformed]

RuleType == [match : [type : {"Exact", "Prefix"}, path : Seq(STRING)], service : STRING]

EffectType == [session : {"no", "cookie", "named"}, request : 0..NoTimeout, backend : 0..NoTimeout]

LEMMA InputTypes ==
  ASSUME TypeOK
  PROVE  /\ ing \in IngressType /\ ing \in Ingresses /\ dropped \in Policies
         /\ Len(ing.entries) \in Nat /\ Len(ing.annotations) \in Nat
         /\ DOMAIN ing.entries = 1..Len(ing.entries)
         /\ DOMAIN ing.annotations = 1..Len(ing.annotations)
         /\ \A i \in DOMAIN ing.entries : ing.entries[i] \in EntryType
         /\ \A i \in DOMAIN ing.annotations : ing.annotations[i] \in AnnotationType
<1>1. ing \in Ingresses /\ dropped \in Policies
  BY DEF TypeOK, input
<1>2. ing \in IngressType
  BY <1>1, ConversionAssumption
<1>3. ing.entries \in Seq(EntryType) /\ ing.annotations \in Seq(AnnotationType)
  BY <1>2 DEF IngressType, AnnotationType
<1> QED
  BY <1>1, <1>2, <1>3

(* The longest prefix without a regular expression exists.                 *)
PlainUpto(path) ==
  {n \in 0..Len(path) :
     \A i \in 1..n : path[i] \notin RegexSegments \union DottedSegments}

LEMMA LeastExists ==
  ASSUME NEW S \in SUBSET Nat, S # {}
  PROVE  \E n \in S : \A k \in S : n <= k
<1>1. PICK n \in S : \A k \in S : ~(<<k, n>> \in OpToRel(<, Nat))
  BY NatLessThanWellFounded, WFMin
<1>2. \A k \in S : k \in Nat /\ n \in Nat /\ ~(k < n)
  BY <1>1 DEF OpToRel
<1> QED
  BY <1>2

LEMMA GreatestExists ==
  ASSUME NEW K \in Nat, NEW S \in SUBSET (0..K), S # {}
  PROVE  \E n \in S : \A k \in S : k <= n
<1> DEFINE T == {K - n : n \in S}
<1>1. T \in SUBSET Nat /\ T # {}
  <2>1. \A n \in S : n \in 0..K
    OBVIOUS
  <2>2. \A n \in S : K - n \in Nat
    BY <2>1
  <2> QED
    BY <2>2
<1>2. PICK x \in T : \A y \in T : x <= y
  BY <1>1, LeastExists
<1>3. PICK n \in S : x = K - n
  OBVIOUS
<1>4. \A k \in S : K - k \in T /\ k \in 0..K
  OBVIOUS
<1> HIDE DEF T
<1>5. \A k \in S : k <= n
  BY <1>2, <1>3, <1>4
<1> QED
  BY <1>5

LEMMA RegexPrefixIs ==
  ASSUME NEW path \in Seq(STRING)
  PROVE  \E n \in PlainUpto(path) : RegexPrefix(path) = SubSeq(path, 1, n)
<1>1. 0 \in PlainUpto(path)
  BY DEF PlainUpto
<1>2. \E n \in PlainUpto(path) : \A k \in PlainUpto(path) : k <= n
  BY <1>1, GreatestExists, Len(path) \in Nat DEF PlainUpto
<1>3. RegexPrefix(path)
        = SubSeq(path, 1, CHOOSE n \in PlainUpto(path) : \A k \in PlainUpto(path) : k <= n)
  BY DEF RegexPrefix, PlainUpto
<1> QED
  BY <1>2, <1>3

LEMMA RuleTypes ==
  ASSUME NEW entry \in EntryType
  PROVE  RuleOf(entry) \in RuleType
<1>1. entry.path \in Seq(STRING) /\ entry.service \in STRING
  BY DEF EntryType
<1>2. RegexPrefix(entry.path) \in Seq(STRING)
  <2>1. PICK n \in PlainUpto(entry.path) : RegexPrefix(entry.path) = SubSeq(entry.path, 1, n)
    BY <1>1, RegexPrefixIs
  <2> QED
    BY <1>1, <2>1 DEF PlainUpto
<1>3. ConvertPath(entry) \in [type : {"Exact", "Prefix"}, path : Seq(STRING)]
  BY <1>1, <1>2 DEF ConvertPath
<1>4. EveryCall \in [type : {"Exact", "Prefix"}, path : Seq(STRING)]
  BY DEF EveryCall
<1> QED
  BY <1>1, <1>3, <1>4 DEF RuleOf, RuleType

LEMMA EffectTypes ==
  ASSUME NEW annotation \in AnnotationType
  PROVE  EffectOf(annotation) \in EffectType /\ FiltersOf(annotation) \in Seq(Filters)
<1>1. annotation.seconds \in 0..NoTimeout
  BY DEF AnnotationType, NoTimeout, Malformed
<1>2. NoEffect \in EffectType
  BY DEF NoEffect, EffectType, NoTimeout, Malformed
<1>3. EffectOf(annotation) \in EffectType
  BY <1>1, <1>2 DEF EffectOf, EffectType
<1>4. FiltersOf(annotation) \in Seq(Filters)
  <2>1. FiltersOf(annotation) = <<>> \/ \E f \in Filters : FiltersOf(annotation) = <<f>>
    BY DEF FiltersOf, Filters
  <2>2. <<>> \in Seq(Filters) /\ \A f \in Filters : <<f>> \in Seq(Filters)
    OBVIOUS
  <2> QED
    BY <2>1, <2>2
<1> QED
  BY <1>3, <1>4

LEMMA MergeTypes ==
  ASSUME NEW a \in EffectType, NEW b \in EffectType
  PROVE  MergeRuleEffect(a, b) \in EffectType
  BY DEF MergeRuleEffect, LongerDuration, EffectType

LEMMA InitTypes == Init => TypeOK
  BY DEF Init, TypeOK, input, NoEffect, NoTimeout, Malformed

(* An entry with http is converted if it can be and else fails.            *)
LEMMA EntryConverted ==
  ASSUME TypeOK, ConvertEntry
  PROVE  /\ at \in DOMAIN ing.entries /\ ing.entries[at] \in EntryType
         /\ \/ ing.entries[at].type = "NoHTTP" /\ UNCHANGED <<rules, issues>>
            \/ /\ ing.entries[at].type # "NoHTTP" /\ ~Convertible(ing.entries[at])
               /\ issues' = issues \union {<<"error", "path", at>>} /\ UNCHANGED rules
            \/ /\ ing.entries[at].type # "NoHTTP" /\ Convertible(ing.entries[at])
               /\ rules' = Append(rules, RuleOf(ing.entries[at]))
               /\ IF PathReported(ing.entries[at])
                  THEN \E severity \in {"warning", "info"} :
                         issues' = issues \union {<<severity, "path", at>>}
                  ELSE UNCHANGED issues
<1>1. at \in DOMAIN ing.entries
  BY InputTypes DEF ConvertEntry, TypeOK
<1>2. ing.entries[at] \in EntryType
  BY <1>1, InputTypes
<1> QED
  BY <1>1, <1>2 DEF ConvertEntry, Reports, RuleOf

LEMMA NextTypes ==
  ASSUME TypeOK, [Next]_vars
  PROVE  TypeOK'
<1> USE DEF input
<1>1. CASE TranslateAnnotation
  <2> DEFINE annotation == ing.annotations[at]
  <2>1. annotation \in AnnotationType /\ at \in Nat
    BY <1>1, InputTypes DEF TranslateAnnotation, TypeOK
  <2>2. filters' \in Seq(Filters)
    <3>1. FiltersOf(annotation) \in Seq(Filters)
      BY <2>1, EffectTypes
    <3> HIDE DEF annotation
    <3>2. filters' = filters \/ filters' = filters \o FiltersOf(annotation)
      BY <1>1 DEF TranslateAnnotation, annotation
    <3>3. filters \in Seq(Filters)
      BY DEF TypeOK
    <3>4. filters \o FiltersOf(annotation) \in Seq(Filters)
      BY <3>1, <3>3, ConcatProperties
    <3> QED
      BY <3>2, <3>3, <3>4
  <2>3. effect' \in EffectType
    <3>1. effect' = effect \/ effect' = MergeRuleEffect(effect, EffectOf(annotation))
      BY <1>1 DEF TranslateAnnotation
    <3>2. effect \in EffectType
      BY DEF TypeOK, EffectType
    <3> QED
      BY <2>1, <3>1, <3>2, EffectTypes, MergeTypes
  <2>4. issues' \subseteq {"info", "warning", "error"} \X Subjects \X Nat
    <3>1. issues' = issues \/ issues' = issues \union {<<"warning", "annotation", at>>}
      BY <1>1 DEF TranslateAnnotation, Reports
    <3> QED
      BY <2>1, <3>1 DEF TypeOK, Subjects
  <2> QED
    BY <1>1, <2>1, <2>2, <2>3, <2>4 DEF TranslateAnnotation, TypeOK, EffectType
<1>2. CASE StartPaths
  BY <1>2 DEF StartPaths, TypeOK
<1>3. CASE ConvertEntry
  <2> DEFINE entry == ing.entries[at]
  <2>1. entry \in EntryType /\ at \in Nat
    BY <1>3, EntryConverted DEF TypeOK
  <2>2. rules' \in Seq(RuleType)
    <3>1. rules' = rules \/ rules' = Append(rules, RuleOf(entry))
      BY <1>3, EntryConverted
    <3>2. rules \in Seq(RuleType) /\ RuleOf(entry) \in RuleType
      BY <2>1, RuleTypes DEF TypeOK, RuleType
    <3> QED
      BY <3>1, <3>2
  <2>3. issues' \subseteq {"info", "warning", "error"} \X Subjects \X Nat
    <3>1. issues' = issues \/ \E severity \in {"info", "warning", "error"} :
                                issues' = issues \union {<<severity, "path", at>>}
      BY <1>3, EntryConverted
    <3> QED
      BY <2>1, <3>1 DEF TypeOK, Subjects
  <2>4. hostnames' \subseteq STRING /\ NoHost \notin hostnames'
    <3>1. hostnames' = hostnames \union ({entry.host} \ {NoHost}) /\ entry.host \in STRING
      BY <1>3, <2>1 DEF ConvertEntry, EntryType
    <3> QED
      BY <3>1 DEF TypeOK
  <2> QED
    BY <1>3, <2>1, <2>2, <2>3, <2>4 DEF ConvertEntry, TypeOK, RuleType
<1>4. CASE Finish
  <2>1. issues' \subseteq {"info", "warning", "error"} \X Subjects \X Nat
    BY <1>4 DEF Finish, TypeOK, Subjects
  <2> QED
    BY <1>4, <2>1 DEF Finish, TypeOK
<1>5. CASE UNCHANGED vars
  BY <1>5 DEF vars, TypeOK
<1> QED
  BY <1>1, <1>2, <1>3, <1>4, <1>5 DEF Next

(* What a conversion builds is well-formed: every match is exact or a      *)
(* prefix, whatever the Ingress's path types (route.go:26-80).             *)
THEOREM ConversionTypes ==
  Spec => []TypeOK
  BY InitTypes, NextTypes, PTL DEF Spec

-----------------------------------------------------------------------------
(* Annotations.                                                            *)

HTTPOnly == pc = "annotations" => ~ing.grpc

(* What an annotation contributes, field by field.                         *)
LEMMA EffectIs ==
  ASSUME NEW annotation \in AnnotationType
  PROVE  /\ EffectOf(annotation).session =
              IF annotation.kind = "affinity" THEN "cookie"
              ELSE IF annotation.kind = "cookieName" /\ Has("affinity") THEN "named" ELSE "no"
         /\ EffectOf(annotation).backend =
              IF annotation.kind \in {"readTimeout", "sendTimeout"}
              THEN annotation.seconds ELSE NoTimeout
         /\ EffectOf(annotation).request =
              IF annotation.kind = "requestTimeout" THEN annotation.seconds ELSE NoTimeout
         /\ annotation.kind \in {"rewrite", "redirect", "header", "cors"}
              => FiltersOf(annotation) # <<>>
<1>1. /\ NoEffect.session = "no" /\ NoEffect.backend = NoTimeout /\ NoEffect.request = NoTimeout
      /\ DOMAIN NoEffect = {"session", "backend", "request"}
  BY DEF NoEffect
<1>2. EffectOf(annotation).session =
        IF annotation.kind = "affinity" THEN "cookie"
        ELSE IF annotation.kind = "cookieName" /\ Has("affinity") THEN "named" ELSE "no"
  BY <1>1 DEF EffectOf
<1>3. EffectOf(annotation).backend =
        IF annotation.kind \in {"readTimeout", "sendTimeout"}
        THEN annotation.seconds ELSE NoTimeout
  BY <1>1 DEF EffectOf
<1>4. EffectOf(annotation).request =
        IF annotation.kind = "requestTimeout" THEN annotation.seconds ELSE NoTimeout
  BY <1>1 DEF EffectOf
<1>5. annotation.kind \in {"rewrite", "redirect", "header", "cors"} => FiltersOf(annotation) # <<>>
  BY DEF FiltersOf
<1> QED
  BY <1>2, <1>3, <1>4, <1>5

(* The longer of two timeouts, where there are two.                        *)
LEMMA LongerIs ==
  ASSUME NEW a \in 0..NoTimeout, NEW b \in 0..NoTimeout
  PROVE  /\ LongerDuration(a, b) \in 0..NoTimeout
         /\ LongerDuration(a, b) = a \/ LongerDuration(a, b) = b
         /\ b = NoTimeout => LongerDuration(a, b) = a
         /\ a = NoTimeout => LongerDuration(a, b) = b
         /\ a # NoTimeout => LongerDuration(a, b) \in a..(NoTimeout - 1)
         /\ b # NoTimeout => LongerDuration(a, b) \in b..(NoTimeout - 1)
  BY DEF LongerDuration, NoTimeout, Malformed

(* A timeout is not shortened by another, and the longest of several is    *)
(* the longer of the longest of all but one and that one.                  *)
LEMMA LongerKeeps ==
  ASSUME NEW x \in 0..NoTimeout, NEW y \in 0..NoTimeout, NEW n \in 0..NoTimeout,
         x \in n..(NoTimeout - 1)
  PROVE  LongerDuration(x, y) \in n..(NoTimeout - 1)
  BY DEF LongerDuration, NoTimeout, Malformed

LEMMA LongestExtends ==
  ASSUME NEW S \in SUBSET (0..(NoTimeout - 1)), NEW x \in 0..NoTimeout, LongestOf(S, x),
         NEW y \in 0..(NoTimeout - 1)
  PROVE  LongestOf(S \union {y}, LongerDuration(x, y))
<1>1. CASE S = {}
  BY <1>1 DEF LongestOf, LongerDuration, NoTimeout, Malformed
<1>2. CASE S # {}
  <2>1. x \in S /\ x \in 0..(NoTimeout - 1) /\ \A n \in S : n \in 0..(NoTimeout - 1) /\ n <= x
    BY <1>2 DEF LongestOf
  <2>2. LongerDuration(x, y) = IF x >= y THEN x ELSE y
    BY <2>1 DEF LongerDuration, NoTimeout, Malformed
  <2>3. LongerDuration(x, y) \in S \union {y}
    BY <2>1, <2>2
  <2>4. \A n \in S \union {y} : n <= LongerDuration(x, y)
    BY <2>1, <2>2 DEF NoTimeout, Malformed
  <2> QED
    BY <2>3, <2>4 DEF LongestOf
<1> QED
  BY <1>1, <1>2

(* A step over an annotation that is kept, and over one that is dropped.   *)
LEMMA AnnotationTranslated ==
  ASSUME TypeOK, HTTPOnly, TranslateAnnotation
  PROVE  /\ at \in DOMAIN ing.annotations /\ ing.annotations[at] \in AnnotationType
         /\ at \notin Translated /\ Translated' = Translated \union {at}
         /\ ing' = ing /\ dropped' = dropped
         /\ \/ /\ Kind(at) \in dropped /\ KeptSoFar' = KeptSoFar
               /\ UNCHANGED <<filters, effect, issues>>
            \/ /\ Kind(at) \notin dropped /\ KeptSoFar' = KeptSoFar \union {at}
               /\ filters' = filters \o FiltersOf(ing.annotations[at])
               /\ effect' = MergeRuleEffect(effect, EffectOf(ing.annotations[at]))
               /\ issues' = issues \union
                    (IF AnnotationReported(ing.annotations[at])
                     THEN {<<"warning", "annotation", at>>} ELSE {})
<1>1. at \in DOMAIN ing.annotations /\ ing.annotations[at] \in AnnotationType /\ at \in Nat
  BY InputTypes DEF TranslateAnnotation, TypeOK
<1>2. ing' = ing /\ dropped' = dropped /\ pc' = pc /\ pc = "annotations" /\ at' = at + 1 /\ ~ing.grpc
  BY DEF TranslateAnnotation, input, HTTPOnly
<1>3. at \notin Translated /\ Translated' = Translated \union {at}
  BY <1>1, <1>2, InputTypes DEF Translated
<1>4. KeptSoFar' = IF Kind(at) \in dropped THEN KeptSoFar ELSE KeptSoFar \union {at}
  BY <1>2, <1>3 DEF KeptSoFar, Kind
<1>5. \/ Kind(at) \in dropped /\ UNCHANGED <<filters, effect, issues>>
      \/ /\ Kind(at) \notin dropped
         /\ filters' = filters \o FiltersOf(ing.annotations[at])
         /\ effect' = MergeRuleEffect(effect, EffectOf(ing.annotations[at]))
         /\ issues' = issues \union
              (IF AnnotationReported(ing.annotations[at])
               THEN {<<"warning", "annotation", at>>} ELSE {})
  BY DEF TranslateAnnotation, IgnoredByPolicy, Kind, Reports
<1> QED
  BY <1>1, <1>2, <1>3, <1>4, <1>5

(* An annotation asks for one filter at most, and its kind tells which.    *)
LEMMA FilterKinds ==
  ASSUME NEW a
  PROVE  /\ FiltersOf(a) = <<"URLRewrite">> <=> a.kind = "rewrite"
         /\ FiltersOf(a) = <<"RequestRedirect">> <=> a.kind = "redirect"
         /\ FiltersOf(a) = <<"RequestHeaderModifier">> <=> a.kind = "header"
         /\ FiltersOf(a) = <<"CORS">> <=> a.kind = "cors"
         /\ FiltersOf(a) # <<>> <=> a.kind \in {"rewrite", "redirect", "header", "cors"}
         /\ FiltersOf(a) = <<>> \/ \E filter \in Filters : FiltersOf(a) = <<filter>>
<1>1. CASE a.kind = "rewrite"
  BY <1>1 DEF FiltersOf, Filters
<1>2. CASE a.kind = "redirect"
  BY <1>2 DEF FiltersOf, Filters
<1>3. CASE a.kind = "header"
  BY <1>3 DEF FiltersOf, Filters
<1>4. CASE a.kind = "cors"
  BY <1>4 DEF FiltersOf, Filters
<1>5. CASE a.kind \notin {"rewrite", "redirect", "header", "cors"}
  BY <1>5 DEF FiltersOf
<1> QED
  BY <1>1, <1>2, <1>3, <1>4, <1>5

LEMMA Finite ==
  ASSUME TypeOK, NEW filter
  PROVE  /\ IsFiniteSet(Positions(filter))
         /\ \A S \in SUBSET DOMAIN ing.annotations : IsFiniteSet(With(filter, S))
<1>1. filters \in Seq(Filters) /\ Len(filters) \in Nat
  BY DEF TypeOK
<1>2. IsFiniteSet(DOMAIN filters) /\ IsFiniteSet(DOMAIN ing.annotations)
  BY <1>1, InputTypes, FS_Interval
<1>3. IsFiniteSet(Positions(filter))
  BY <1>2, FS_Subset DEF Positions
<1>4. ASSUME NEW S \in SUBSET DOMAIN ing.annotations
      PROVE  IsFiniteSet(With(filter, S))
  <2>1. With(filter, S) \in SUBSET DOMAIN ing.annotations
    BY DEF With
  <2> QED
    BY <1>2, <2>1, FS_Subset
<1> QED
  BY <1>3, <1>4

LEMMA TranslateFilters ==
  ASSUME TypeOK, HTTPOnly, CountInv, TranslateAnnotation
  PROVE  CountInv'
<1> SUFFICES ASSUME NEW filter \in Filters
             PROVE  Cardinality(Positions(filter))' = Cardinality(With(filter, KeptSoFar))'
  BY DEF CountInv
<1>1. CASE Kind(at) \in dropped
  BY <1>1, AnnotationTranslated DEF CountInv, Positions, With, FiltersOf
<1>2. CASE Kind(at) \notin dropped
  <2> DEFINE new  == FiltersOf(ing.annotations[at])
             last == Len(filters) + 1
  <2>1. /\ filters' = filters \o new /\ KeptSoFar' = KeptSoFar \union {at} /\ ing' = ing
        /\ at \notin KeptSoFar /\ KeptSoFar \in SUBSET DOMAIN ing.annotations
    BY <1>2, AnnotationTranslated DEF KeptSoFar, Translated
  <2>2. filters \in Seq(Filters) /\ Len(filters) \in Nat
    BY DEF TypeOK
  <2>3. With(filter, KeptSoFar)' = IF new = <<filter>> THEN With(filter, KeptSoFar) \union {at}
                                   ELSE With(filter, KeptSoFar)
    BY <2>1 DEF With, FiltersOf
  <2>4. at \notin With(filter, KeptSoFar)
    BY <2>1 DEF With
  <2>5. new = <<>> \/ \E other \in Filters : new = <<other>>
    BY FilterKinds
  <2> HIDE DEF new
  <2>6. Positions(filter)' = IF new = <<filter>> THEN Positions(filter) \union {last}
                             ELSE Positions(filter)
    <3>1. CASE new = <<>>
      <4>1. filters' = filters
        BY <2>1, <2>2, <3>1
      <4> QED
        BY <3>1, <4>1 DEF Positions
    <3>2. ASSUME NEW other \in Filters, new = <<other>>
          PROVE  Positions(filter)' = IF new = <<filter>> THEN Positions(filter) \union {last}
                                      ELSE Positions(filter)
      <4>1. filters' = Append(filters, other)
        BY <2>1, <2>2, <3>2
      <4>2. /\ DOMAIN filters' = DOMAIN filters \union {last} /\ filters'[last] = other
            /\ \A j \in DOMAIN filters : filters'[j] = filters[j]
        BY <2>2, <4>1
      <4>3. new = <<filter>> <=> other = filter
        BY <3>2
      <4> QED
        BY <4>2, <4>3 DEF Positions
    <3> QED
      BY <2>5, <3>1, <3>2
  <2>7. last \notin Positions(filter)
    BY <2>2 DEF Positions
  <2>8. Cardinality(Positions(filter)) = Cardinality(With(filter, KeptSoFar))
    BY DEF CountInv
  <2>9. IsFiniteSet(Positions(filter)) /\ IsFiniteSet(With(filter, KeptSoFar))
    BY <2>1, Finite
  <2>10. CASE new = <<filter>>
    <3>1. Cardinality(Positions(filter) \union {last}) = Cardinality(Positions(filter)) + 1
      BY <2>7, <2>9, FS_AddElement
    <3>2. Cardinality(With(filter, KeptSoFar) \union {at}) = Cardinality(With(filter, KeptSoFar)) + 1
      BY <2>4, <2>9, FS_AddElement
    <3> QED
      BY <2>3, <2>6, <2>8, <2>10, <3>1, <3>2
  <2>11. CASE new # <<filter>>
    BY <2>3, <2>6, <2>8, <2>11
  <2> QED
    BY <2>10, <2>11
<1> QED
  BY <1>1, <1>2

(* A timeout that is the longest of its kinds is so when one more          *)
(* annotation was translated.                                              *)
LEMMA TranslateLongest ==
  ASSUME TypeOK, HTTPOnly, TranslateAnnotation, Kind(at) \notin dropped,
         NEW kinds \in SUBSET {"readTimeout", "sendTimeout", "requestTimeout"},
         NEW x \in 0..NoTimeout, LongestOf(SecondsOf(kinds, KeptSoFar), x),
         NEW b, b = IF Kind(at) \in kinds THEN ing.annotations[at].seconds ELSE NoTimeout
  PROVE  LongestOf(SecondsOf(kinds, KeptSoFar \union {at}), LongerDuration(x, b))
<1> DEFINE a   == ing.annotations[at]
           old == SecondsOf(kinds, KeptSoFar)
           new == SecondsOf(kinds, KeptSoFar \union {at})
<1>1. a \in AnnotationType
  BY AnnotationTranslated
<1>2. a.seconds \in 0..NoTimeout /\ NoTimeout = Malformed /\ NoTimeout \in Nat
  BY <1>1 DEF AnnotationType, NoTimeout, Malformed
<1>3. b = NoTimeout => new = old
  BY <1>2 DEF SecondsOf, Kind, Unreadable
<1>4. b # NoTimeout => new = old \union {b}
  BY <1>2 DEF SecondsOf, Kind, Unreadable
<1>5. old \in SUBSET (0..(NoTimeout - 1))
  <2>1. SUFFICES ASSUME NEW i \in KeptSoFar, ~Unreadable(ing.annotations[i]), Kind(i) \in kinds
                 PROVE  ing.annotations[i].seconds \in 0..(NoTimeout - 1)
    BY DEF SecondsOf, Kind
  <2>2. ing.annotations[i] \in AnnotationType
    BY InputTypes DEF KeptSoFar, Translated
  <2>3. ing.annotations[i].kind \in {"readTimeout", "sendTimeout", "requestTimeout"}
    BY <2>1 DEF Kind
  <2> QED
    BY <1>2, <2>1, <2>2, <2>3 DEF Unreadable, AnnotationType
<1>6. b \in 0..NoTimeout /\ LongestOf(old, x) /\ x \in 0..NoTimeout
  BY <1>2
<1> HIDE DEF a, old, new
<1>7. LongestOf(new, LongerDuration(x, b))
  <2>1. CASE b = NoTimeout
    BY <1>3, <1>6, <2>1, LongerIs
  <2>2. CASE b # NoTimeout
    <3>1. b \in 0..(NoTimeout - 1)
      BY <1>6, <2>2 DEF NoTimeout, Malformed
    <3> QED
      BY <1>4, <1>5, <1>6, <2>2, <3>1, LongestExtends
  <2> QED
    BY <2>1, <2>2
<1> QED
  BY <1>7 DEF new

LEMMA TranslateTimeouts ==
  ASSUME TypeOK, HTTPOnly, BackendInv, RequestInv, TranslateAnnotation
  PROVE  BackendInv' /\ RequestInv'
<1> DEFINE backend == {"readTimeout", "sendTimeout"}
           request == {"requestTimeout"}
<1>1. \A kinds, S : SecondsOf(kinds, S)' = SecondsOf(kinds, S')
  BY AnnotationTranslated DEF SecondsOf, Unreadable
<1>2. CASE Kind(at) \in dropped
  BY <1>1, <1>2, AnnotationTranslated DEF BackendInv, RequestInv, LongestOf
<1>3. CASE Kind(at) \notin dropped
  <2> DEFINE a == ing.annotations[at]
             b == EffectOf(a)
  <2>1. KeptSoFar' = KeptSoFar \union {at} /\ a \in AnnotationType
    BY <1>3, AnnotationTranslated
  <2>2. /\ effect'.backend = LongerDuration(effect.backend, b.backend)
        /\ effect'.request = LongerDuration(effect.request, b.request)
    BY <1>3, AnnotationTranslated DEF MergeRuleEffect
  <2>3. /\ b.backend = IF Kind(at) \in backend THEN a.seconds ELSE NoTimeout
        /\ b.request = IF Kind(at) \in request THEN a.seconds ELSE NoTimeout
    BY <2>1, EffectIs DEF Kind
  <2>4. effect.backend \in 0..NoTimeout /\ effect.request \in 0..NoTimeout
    BY DEF TypeOK
  <2>5. LongestOf(SecondsOf(backend, KeptSoFar \union {at}), effect'.backend)
    BY <1>3, <2>2, <2>3, <2>4, TranslateLongest DEF BackendInv
  <2>6. LongestOf(SecondsOf(request, KeptSoFar \union {at}), effect'.request)
    BY <1>3, <2>2, <2>3, <2>4, TranslateLongest DEF RequestInv
  <2> QED
    BY <1>1, <2>1, <2>5, <2>6 DEF BackendInv, RequestInv, LongestOf
<1> QED
  BY <1>2, <1>3

(* What shows in the rules goes on showing.                                *)
LEMMA InRulesStays ==
  ASSUME TypeOK, HTTPOnly, TranslateAnnotation, NEW i \in DOMAIN ing.annotations,
         InRules(ing.annotations[i])
  PROVE  InRules(ing.annotations[i])'
<1> DEFINE a == ing.annotations[i]
           b == EffectOf(ing.annotations[at])
<1>1. CASE Kind(at) \in dropped
  BY <1>1, AnnotationTranslated DEF InRules, FiltersOf
<1>2. CASE Kind(at) \notin dropped
  <2>1. b \in EffectType /\ FiltersOf(ing.annotations[at]) \in Seq(Filters)
    BY AnnotationTranslated, EffectTypes
  <2>2. /\ effect.session # "no" => effect'.session # "no"
        /\ effect'.backend = LongerDuration(effect.backend, b.backend)
        /\ effect'.request = LongerDuration(effect.request, b.request)
    BY <1>2, <2>1, AnnotationTranslated DEF MergeRuleEffect
  <2>3. ToSet(filters) \subseteq ToSet(filters')
    <3>1. filters' = filters \o FiltersOf(ing.annotations[at]) /\ filters \in Seq(Filters)
      BY <1>2, AnnotationTranslated DEF TypeOK
    <3>2. \A j \in 1..Len(filters) : j \in DOMAIN filters' /\ filters'[j] = filters[j]
      BY <2>1, <3>1, ConcatProperties
    <3> QED
      BY <3>1, <3>2 DEF ToSet
  <2>4. a \in AnnotationType /\ ing' = ing
    BY InputTypes, AnnotationTranslated
  <2>5. a.seconds \in 0..NoTimeout /\ NoTimeout \in Nat
    BY <2>4 DEF AnnotationType, NoTimeout, Malformed
  <2>6. effect.backend \in a.seconds..(NoTimeout - 1) => effect'.backend \in a.seconds..(NoTimeout - 1)
    <3>1. effect.backend \in 0..NoTimeout /\ b.backend \in 0..NoTimeout
      BY <2>1 DEF TypeOK, EffectType
    <3> HIDE DEF a, b
    <3> QED
      BY <2>2, <2>5, <3>1, LongerKeeps
  <2>7. effect.request \in a.seconds..(NoTimeout - 1) => effect'.request \in a.seconds..(NoTimeout - 1)
    <3>1. effect.request \in 0..NoTimeout /\ b.request \in 0..NoTimeout
      BY <2>1 DEF TypeOK, EffectType
    <3> HIDE DEF a, b
    <3> QED
      BY <2>2, <2>5, <3>1, LongerKeeps
  <2>8. FiltersOf(a)' = FiltersOf(a)
    BY <2>4 DEF FiltersOf
  <2>9. CASE a.kind = "affinity"
    BY <2>2, <2>4, <2>9 DEF InRules
  <2>10. CASE a.kind \in {"readTimeout", "sendTimeout"}
    BY <2>4, <2>6, <2>10 DEF InRules
  <2>11. CASE a.kind = "requestTimeout"
    BY <2>4, <2>7, <2>11 DEF InRules
  <2>12. CASE a.kind \notin {"affinity", "readTimeout", "sendTimeout", "requestTimeout"}
    BY <2>3, <2>4, <2>8, <2>12 DEF InRules
  <2> QED
    BY <2>9, <2>10, <2>11, <2>12
<1> QED
  BY <1>1, <1>2

LEMMA TranslateNotice ==
  ASSUME TypeOK, HTTPOnly, NoticeInv, TranslateAnnotation
  PROVE  NoticeInv'
<1> DEFINE Noticed(i) ==
             \/ Kind(i) \in {"inert", "lost", "cookieName"} \/ InRules(ing.annotations[i])
             \/ <<"warning", "annotation", i>> \in issues
<1>1. ASSUME NEW i \in KeptSoFar
      PROVE  Noticed(i)'
  <2>1. Noticed(i) /\ i \in DOMAIN ing.annotations
    BY DEF NoticeInv, KeptSoFar, Translated
  <2>2. issues \subseteq issues' /\ ing' = ing
    BY AnnotationTranslated
  <2> QED
    BY <2>1, <2>2, InRulesStays DEF Kind
<1>2. ASSUME NEW i \in {at}, Kind(at) \notin dropped
      PROVE  Noticed(i)'
  <2> DEFINE a == ing.annotations[i]
             b == EffectOf(a)
  <2>1. /\ a \in AnnotationType /\ ing' = ing
        /\ filters' = filters \o FiltersOf(a) /\ effect' = MergeRuleEffect(effect, b)
        /\ AnnotationReported(a) => <<"warning", "annotation", i>> \in issues'
    BY <1>2, AnnotationTranslated
  <2>2. b \in EffectType /\ FiltersOf(a) \in Seq(Filters) /\ filters \in Seq(Filters)
        /\ effect \in EffectType
    BY <2>1, EffectTypes DEF TypeOK, EffectType
  <2>3. /\ b.session # "no" => effect'.session # "no"
        /\ effect'.backend = LongerDuration(effect.backend, b.backend)
        /\ effect'.request = LongerDuration(effect.request, b.request)
    BY <2>1, <2>2 DEF MergeRuleEffect
  <2>4. CASE a.kind = "affinity"
    BY <2>1, <2>3, <2>4, EffectIs DEF InRules
  <2>5. CASE a.kind \in {"readTimeout", "sendTimeout"} /\ ~Unreadable(a)
    <3>1. b.backend = a.seconds /\ a.seconds # NoTimeout
      BY <2>1, <2>5, EffectIs DEF Unreadable, NoTimeout
    <3>2. effect.backend \in 0..NoTimeout /\ b.backend \in 0..NoTimeout
      BY <2>2 DEF EffectType
    <3>3. effect'.backend \in a.seconds..(NoTimeout - 1)
      <4> HIDE DEF a, b
      <4> QED
        BY <2>3, <3>1, <3>2, LongerIs
    <3> QED
      BY <2>1, <2>5, <3>3 DEF InRules
  <2>6. CASE a.kind = "requestTimeout" /\ ~Unreadable(a)
    <3>1. b.request = a.seconds /\ a.seconds # NoTimeout
      BY <2>1, <2>6, EffectIs DEF Unreadable, NoTimeout
    <3>2. effect.request \in 0..NoTimeout /\ b.request \in 0..NoTimeout
      BY <2>2 DEF EffectType
    <3>3. effect'.request \in a.seconds..(NoTimeout - 1)
      <4> HIDE DEF a, b
      <4> QED
        BY <2>3, <3>1, <3>2, LongerIs
    <3> QED
      BY <2>1, <2>6, <3>3 DEF InRules
  <2>7. CASE a.kind \in {"rewrite", "redirect", "header", "cors"}
    <3>1. FiltersOf(a) # <<>> /\ FiltersOf(a)' = FiltersOf(a)
      BY <2>1, <2>7, EffectIs DEF FiltersOf
    <3>2. ToSet(FiltersOf(a)) \subseteq ToSet(filters')
      <4> DEFINE new == FiltersOf(a)
      <4> HIDE DEF new
      <4>1. \A k \in 1..Len(new) : /\ Len(filters) + k \in 1..(Len(filters) + Len(new))
                                   /\ filters'[Len(filters) + k] = new[k]
        BY <2>1, <2>2, ConcatProperties DEF new
      <4>2. DOMAIN filters' = 1..(Len(filters) + Len(new)) /\ DOMAIN new = 1..Len(new)
        BY <2>1, <2>2, ConcatProperties DEF new
      <4> QED
        BY <4>1, <4>2 DEF ToSet, new
    <3> QED
      BY <2>1, <2>7, <3>1, <3>2 DEF InRules
  <2>8. CASE a.kind \in {"captures", "unsupported"} \/ Unreadable(a)
    BY <2>1, <2>8 DEF AnnotationReported
  <2>9. CASE a.kind \in {"inert", "lost", "cookieName"}
    BY <2>1, <2>9 DEF Kind
  <2> QED
    BY <2>1, <2>4, <2>5, <2>6, <2>7, <2>8, <2>9 DEF AnnotationType, AnnotationKinds
<1> HIDE DEF Noticed
<1>3. \A i \in KeptSoFar' : Noticed(i)'
  BY <1>1, <1>2, AnnotationTranslated
<1> QED
  BY <1>3 DEF NoticeInv, Noticed

LEMMA AnnotationsInit == Init => HTTPOnly /\ AnnotationsInv
<1> SUFFICES ASSUME Init
             PROVE  HTTPOnly /\ AnnotationsInv
  OBVIOUS
<1>1. HTTPOnly /\ KeptSoFar = {}
  <2>1. ing \in IngressType
    BY ConversionAssumption DEF Init
  <2>2. DOMAIN ing.annotations \subseteq Nat
    BY <2>1 DEF IngressType
  <2> QED
    BY <2>2 DEF Init, HTTPOnly, Translated, KeptSoFar
<1>2. effect.request = NoTimeout /\ effect.backend = NoTimeout /\ filters = <<>>
  BY DEF Init, NoEffect
<1>3. CountInv
  BY <1>1, <1>2 DEF CountInv, With, Positions
<1>4. BackendInv /\ RequestInv /\ NoticeInv
  BY <1>1, <1>2 DEF BackendInv, RequestInv, SecondsOf, LongestOf, NoticeInv
<1> QED
  BY <1>1, <1>3, <1>4 DEF AnnotationsInv

(* Only TranslateAnnotation changes what annotations contributed.          *)
LEMMA OthersTranslateNothing ==
  ASSUME TypeOK, HTTPOnly, [Next]_vars, ~TranslateAnnotation
  PROVE  /\ UNCHANGED <<ing, dropped, filters, effect>> /\ issues \subseteq issues' /\ HTTPOnly'
         /\ Translated' = Translated /\ KeptSoFar' = KeptSoFar
<1> USE DEF input
<1>1. CASE StartPaths
  BY <1>1, InputTypes DEF StartPaths, HTTPOnly, Translated, TypeOK, KeptSoFar, Kind
<1>2. CASE ConvertEntry
  <2>1. issues \subseteq issues'
    BY <1>2, EntryConverted
  <2> QED
    BY <1>2, <2>1 DEF ConvertEntry, HTTPOnly, Translated, KeptSoFar, Kind
<1>3. CASE Finish
  BY <1>3 DEF Finish, HTTPOnly, Translated, KeptSoFar, Kind
<1>4. CASE UNCHANGED vars
  BY <1>4 DEF vars, HTTPOnly, Translated, KeptSoFar, Kind
<1> QED
  BY <1>1, <1>2, <1>3, <1>4 DEF Next

LEMMA AnnotationsNext ==
  ASSUME TypeOK, HTTPOnly, AnnotationsInv, [Next]_vars
  PROVE  HTTPOnly' /\ AnnotationsInv'
<1> USE DEF input
<1>1. CASE TranslateAnnotation
  <2>1. HTTPOnly'
    BY <1>1 DEF TranslateAnnotation, HTTPOnly
  <2> QED
    BY <1>1, <2>1, TranslateFilters, TranslateTimeouts, TranslateNotice
    DEF AnnotationsInv
<1>2. CASE ~TranslateAnnotation
  <2>1. /\ UNCHANGED <<ing, dropped, filters, effect>> /\ issues \subseteq issues' /\ HTTPOnly'
        /\ Translated' = Translated
    BY <1>2, OthersTranslateNothing
  <2>2. KeptSoFar' = KeptSoFar
    BY <1>2, OthersTranslateNothing
  <2>3. CountInv' /\ BackendInv' /\ RequestInv'
    <3>1. \A filter : /\ Positions(filter)' = Positions(filter)
                      /\ With(filter, KeptSoFar)' = With(filter, KeptSoFar)
      BY <2>1, <2>2 DEF Positions, With, FiltersOf
    <3>2. \A kinds : SecondsOf(kinds, KeptSoFar)' = SecondsOf(kinds, KeptSoFar)
      BY <2>1, <2>2 DEF SecondsOf, Unreadable
    <3>3. CountInv'
      BY <3>1 DEF AnnotationsInv, CountInv
    <3>4. BackendInv' /\ RequestInv'
      BY <2>1, <3>2 DEF AnnotationsInv, BackendInv, RequestInv, LongestOf
    <3> QED
      BY <3>3, <3>4
  <2>4. NoticeInv'
    <3>1. ASSUME NEW i \in KeptSoFar
          PROVE  InRules(ing.annotations[i])' <=> InRules(ing.annotations[i])
      BY <2>1 DEF InRules, FiltersOf
    <3> QED
      BY <2>1, <2>2, <3>1 DEF AnnotationsInv, NoticeInv, Kind
  <2> QED
    BY <2>1, <2>3, <2>4 DEF AnnotationsInv
<1> QED
  BY <1>1, <1>2

LEMMA AnnotationsAlways == Spec => [](TypeOK /\ HTTPOnly /\ AnnotationsInv)
<1>1. TypeOK /\ HTTPOnly /\ AnnotationsInv /\ [Next]_vars
        => TypeOK' /\ HTTPOnly' /\ AnnotationsInv'
  BY NextTypes, AnnotationsNext
<1> QED
  BY InitTypes, AnnotationsInit, <1>1, PTL DEF Spec

(* When an Ingress is converted, every annotation was translated.          *)
LEMMA AllTranslated ==
  ASSUME TypeOK, pc = "done", ~ing.grpc
  PROVE  KeptSoFar = Kept
  BY DEF KeptSoFar, Kept, Translated, Kind

(* Of several backend timeouts the longest is in force, in whichever order *)
(* the annotations come and whatever cannot be read (engine.go:385).       *)
THEOREM LongestIsKept ==
  Spec => []LongestTimeout
<1> DEFINE asked == SecondsOf({"readTimeout", "sendTimeout"}, Kept)
<1>1. ASSUME TypeOK, AnnotationsInv, pc = "done", ~ing.grpc
      PROVE  IF asked = {} THEN effect.backend = NoTimeout
             ELSE effect.backend \in asked /\ \A n \in asked : n <= effect.backend
  BY <1>1, AllTranslated DEF AnnotationsInv, BackendInv, LongestOf
<1>2. TypeOK /\ AnnotationsInv => LongestTimeout
  BY <1>1 DEF LongestTimeout
<1> QED
  BY <1>2, AnnotationsAlways, PTL

(* An Ingress with gRPC backends has no annotation that asks for anything. *)
GRPCAsksNothing ==
  \A ingress \in Ingresses :
    ingress.grpc => \A i \in DOMAIN ingress.annotations :
                      ingress.annotations[i].kind \in {"inert", "lost", "cookieName"}

(* Every annotation of an HTTP Ingress that its policy keeps shows in the  *)
(* rules or was reported, whatever the others are (README.md:12-14).       *)
THEOREM NoneIsSilent ==
  GRPCAsksNothing => (Spec => []NothingSilent)
<1> SUFFICES ASSUME GRPCAsksNothing
             PROVE  Spec => []NothingSilent
  OBVIOUS
<1>1. ASSUME TypeOK, AnnotationsInv, pc = "done", NEW i \in DOMAIN ing.annotations,
             ing.annotations[i].kind \notin dropped \union {"inert", "lost", "cookieName"}
      PROVE  InRules(ing.annotations[i]) \/ <<"warning", "annotation", i>> \in issues
  <2>1. ~ing.grpc
    BY <1>1, InputTypes DEF GRPCAsksNothing
  <2>2. i \in KeptSoFar
    BY <1>1, <2>1, AllTranslated DEF Kept
  <2> QED
    BY <1>1, <2>2 DEF AnnotationsInv, NoticeInv, Kind
<1>2. TypeOK /\ AnnotationsInv => NothingSilent
  BY <1>1 DEF NothingSilent
<1> QED
  BY <1>2, AnnotationsAlways, PTL

-----------------------------------------------------------------------------
(* Paths.                                                                  *)

LEMMA PlaceType ==
  ASSUME NEW n \in Nat
  PROVE  IsFiniteSet(PathsUpto(n)) /\ Place(n) \in Nat
<1>1. IsFiniteSet(1..n) /\ PathsUpto(n) \in SUBSET (1..n)
  BY FS_Interval DEF PathsUpto
<1> QED
  BY <1>1, FS_Subset, FS_CardinalityType DEF Place

LEMMA PlaceZero == PathsUpto(0) = {} /\ Place(0) = 0
  BY FS_EmptySet DEF PathsUpto, Place

(* A path takes the next place; a rule without http takes none.            *)
LEMMA PlaceNext ==
  ASSUME NEW n \in Nat \ {0}
  PROVE  /\ ing.entries[n].type = "NoHTTP"
              => PathsUpto(n) = PathsUpto(n - 1) /\ Place(n) = Place(n - 1)
         /\ ing.entries[n].type # "NoHTTP"
              => PathsUpto(n) = PathsUpto(n - 1) \union {n} /\ Place(n) = Place(n - 1) + 1
<1>1. 1..n = (1..(n - 1)) \union {n} /\ n \notin PathsUpto(n - 1) /\ n - 1 \in Nat
  BY DEF PathsUpto
<1>2. CASE ing.entries[n].type = "NoHTTP"
  <2>1. PathsUpto(n) = PathsUpto(n - 1)
    BY <1>1, <1>2 DEF PathsUpto
  <2> QED
    BY <1>2, <2>1 DEF Place
<1>3. CASE ing.entries[n].type # "NoHTTP"
  <2>1. PathsUpto(n) = PathsUpto(n - 1) \union {n}
    BY <1>1, <1>3 DEF PathsUpto
  <2>2. Cardinality(PathsUpto(n - 1) \union {n}) = Cardinality(PathsUpto(n - 1)) + 1
    BY <1>1, PlaceType, FS_AddElement
  <2> QED
    BY <1>3, <2>1, <2>2 DEF Place
<1> QED
  BY <1>2, <1>3

LEMMA PlaceGrows ==
  ASSUME NEW m \in Nat, NEW n \in Nat, m <= n
  PROVE  Place(m) <= Place(n)
<1>1. PathsUpto(m) \in SUBSET PathsUpto(n)
  BY DEF PathsUpto
<1> QED
  BY <1>1, PlaceType, FS_Subset DEF Place

(* Places are in the order of the paths, and so tell them apart.           *)
LEMMA PlaceOrder ==
  ASSUME NEW n \in Nat, NEW i \in PathsUpto(n)
  PROVE  /\ Place(i) \in 1..Place(n)
         /\ \A m \in 0..(i - 1) : Place(m) < Place(i)
<1>1. i \in 1..n /\ i \in Nat \ {0} /\ i - 1 \in Nat /\ ing.entries[i].type # "NoHTTP"
  BY DEF PathsUpto
<1>2. Place(i) = Place(i - 1) + 1 /\ Place(i - 1) \in Nat /\ Place(i) \in Nat /\ Place(n) \in Nat
  BY <1>1, PlaceNext, PlaceType
<1>3. Place(i) <= Place(n)
  BY <1>1, PlaceGrows
<1>4. \A m \in 0..(i - 1) : Place(m) <= Place(i - 1) /\ Place(m) \in Nat
  BY <1>1, PlaceGrows, PlaceType
<1> QED
  BY <1>2, <1>3, <1>4

(* Only ConvertEntry gets on, by one entry.                                *)
LEMMA ReachedNext ==
  ASSUME TypeOK, Reached \in 0..Len(ing.entries), [Next]_vars
  PROVE  /\ ing' = ing
         /\ ConvertEntry => /\ at \in 1..Len(ing.entries)
                            /\ Reached = at - 1 /\ Reached' = at
         /\ ~ConvertEntry => /\ Reached' = Reached /\ rules' = rules /\ hostnames' = hostnames
                             /\ issues \subseteq issues'
<1> USE DEF input
<1>1. CASE TranslateAnnotation
  <2>1. issues \subseteq issues'
    BY <1>1 DEF TranslateAnnotation, Reports
  <2> QED
    BY <1>1, <2>1 DEF TranslateAnnotation, ConvertEntry, Reached
<1>2. CASE StartPaths
  BY <1>2 DEF StartPaths, ConvertEntry, Reached
<1>3. CASE ConvertEntry
  <2>1. pc = "paths" /\ pc' = "paths" /\ at <= Len(ing.entries) /\ at' = at + 1 /\ ing' = ing
    BY <1>3 DEF ConvertEntry
  <2>2. at \in Nat \ {0} /\ Len(ing.entries) \in Nat
    BY InputTypes DEF TypeOK
  <2>3. Reached = at - 1 /\ Reached' = at' - 1
    BY <2>1 DEF Reached
  <2> QED
    BY <1>3, <2>1, <2>2, <2>3
<1>4. CASE Finish
  <2>1. Reached = Len(ing.entries)
    BY <1>4, InputTypes DEF Finish, Reached, TypeOK
  <2> QED
    BY <1>4, <2>1 DEF Finish, ConvertEntry, Reached
<1>5. CASE UNCHANGED vars /\ ~ConvertEntry
  BY <1>5 DEF vars, Reached
<1> QED
  BY <1>1, <1>2, <1>3, <1>4, <1>5 DEF Next

LEMMA PathsInit == Init => PathsInv
<1> SUFFICES ASSUME Init
             PROVE  PathsInv
  OBVIOUS
<1>1. Reached = 0 /\ rules = <<>> /\ hostnames = {}
  BY DEF Init, Reached
<1>2. Len(ing.entries) \in Nat
  <2>1. ing \in IngressType
    BY ConversionAssumption DEF Init
  <2> QED
    BY <2>1 DEF IngressType
<1>3. HostsInv
  BY <1>1 DEF HostsInv
<1>4. RulesInv
  BY <1>1, <1>2, PlaceZero DEF RulesInv
<1>5. ReportedInv
  BY <1>1, PlaceZero DEF ReportedInv
<1>6. EmptyInv
  BY DEF Init, EmptyInv
<1> QED
  BY <1>3, <1>4, <1>5, <1>6 DEF PathsInv

(* What an entry adds.                                                     *)
LEMMA EntryHosts ==
  ASSUME TypeOK, PathsInv, ConvertEntry
  PROVE  HostsInv'
<1>1. ing' = ing /\ at \in 1..Len(ing.entries) /\ Reached = at - 1 /\ Reached' = at
  BY ReachedNext DEF PathsInv, RulesInv, Next
<1>2. hostnames' = hostnames \union ({ing.entries[at].host} \ {NoHost})
  BY DEF ConvertEntry
<1>3. 1..at = (1..(at - 1)) \union {at}
  BY <1>1
<1> QED
  BY <1>1, <1>2, <1>3 DEF PathsInv, HostsInv

LEMMA EntryRules ==
  ASSUME TypeOK, PathsInv, ConvertEntry
  PROVE  RulesInv'
<1> DEFINE entry == ing.entries[at]
<1>1. /\ ing' = ing /\ at \in 1..Len(ing.entries) /\ Reached = at - 1 /\ Reached' = at
      /\ at \in Nat \ {0} /\ Len(ing.entries) \in Nat
  BY ReachedNext, InputTypes DEF PathsInv, RulesInv, Next, TypeOK
<1>2. \A n, e : Place(n)' = Place(n) /\ RuleOf(e)' = RuleOf(e)
  BY <1>1 DEF PathsUpto, Place, RuleOf
<1>3. issues \subseteq issues' /\ (ResultFailed => ResultFailed')
  BY EntryConverted DEF ResultFailed
<1> SUFFICES ASSUME ~ResultFailed'
             PROVE  /\ Len(rules') = Place(at)
                    /\ \A i \in PathsUpto(at) :
                         Convertible(ing.entries[i]) /\ rules'[Place(i)] = RuleOf(ing.entries[i])
                    /\ \A k \in DOMAIN rules' : \E i \in PathsUpto(at) : k = Place(i)
  <2>1. PathsUpto(Reached)' = PathsUpto(at) /\ Place(Reached)' = Place(at)
    BY <1>1 DEF PathsUpto, Place
  <2>2. \A i \in PathsUpto(at) : /\ Place(i)' = Place(i)
                                 /\ RuleOf(ing.entries[i])' = RuleOf(ing.entries[i])
    BY <1>1, <1>2
  <2> QED
    BY <1>1, <2>1, <2>2 DEF RulesInv
<1>4. /\ Len(rules) = Place(at - 1)
      /\ \A i \in PathsUpto(at - 1) :
           Convertible(ing.entries[i]) /\ rules[Place(i)] = RuleOf(ing.entries[i])
      /\ \A k \in DOMAIN rules : \E i \in PathsUpto(at - 1) : k = Place(i)
  BY <1>1, <1>3 DEF PathsInv, RulesInv
<1>5. CASE entry.type = "NoHTTP"
  BY <1>1, <1>4, <1>5, EntryConverted, PlaceNext
<1>6. CASE entry.type # "NoHTTP"
  <2>1. Convertible(entry)
    <3>1. <<"error", "path", at>> \notin issues'
      BY DEF ResultFailed
    <3> QED
      BY <1>6, <3>1, EntryConverted
  <2>2. rules' = Append(rules, RuleOf(entry))
    BY <1>6, <2>1, EntryConverted
  <2>3. PathsUpto(at) = PathsUpto(at - 1) \union {at} /\ Place(at) = Place(at - 1) + 1
    BY <1>1, <1>6, PlaceNext
  <2>4. \A i \in PathsUpto(at - 1) : Place(i) \in 1..Len(rules)
    BY <1>1, <1>4, PlaceOrder
  <2>5. rules \in Seq(RuleType)
    BY DEF TypeOK, RuleType
  <2>6. /\ Len(rules') = Place(at) /\ rules'[Place(at)] = RuleOf(entry)
        /\ \A k \in 1..Len(rules) : rules'[k] = rules[k]
        /\ DOMAIN rules' = (1..Len(rules)) \union {Place(at)} /\ DOMAIN rules = 1..Len(rules)
    BY <1>4, <2>2, <2>3, <2>5
  <2> QED
    BY <1>4, <2>1, <2>3, <2>4, <2>6
<1> QED
  BY <1>5, <1>6

LEMMA EntryReported ==
  ASSUME TypeOK, PathsInv, ConvertEntry
  PROVE  ReportedInv'
<1>1. ing' = ing /\ at \in 1..Len(ing.entries) /\ Reached = at - 1 /\ Reached' = at
  BY ReachedNext DEF PathsInv, RulesInv, Next
<1>2. PathsUpto(Reached)' = PathsUpto(at) /\ at \in Nat \ {0}
  BY <1>1 DEF PathsUpto, TypeOK
<1>3. ASSUME NEW i \in PathsUpto(at), PathReported(ing.entries[i])
      PROVE  Named(i)'
  <2>1. CASE i = at
    <3>1. ing.entries[at].type # "NoHTTP"
      BY <1>3, <2>1 DEF PathsUpto
    <3>2. \E severity : <<severity, "path", at>> \in issues'
      BY <1>3, <2>1, <3>1, EntryConverted
    <3> QED
      BY <2>1, <3>2 DEF Named
  <2>2. CASE i # at
    <3>1. i \in PathsUpto(at - 1)
      BY <1>2, <1>3, <2>2 DEF PathsUpto
    <3>2. Named(i)
      BY <1>1, <1>3, <3>1 DEF PathsInv, ReportedInv
    <3>3. issues \subseteq issues'
      BY EntryConverted
    <3> QED
      BY <3>2, <3>3 DEF Named
  <2> QED
    BY <2>1, <2>2
<1> QED
  BY <1>1, <1>2, <1>3 DEF ReportedInv, PathReported, LooksLikeRegex

LEMMA PathsNext ==
  ASSUME TypeOK, PathsInv, [Next]_vars
  PROVE  PathsInv'
<1>1. CASE ConvertEntry
  <2>1. EmptyInv'
    BY <1>1 DEF ConvertEntry, EmptyInv
  <2> QED
    BY <1>1, <2>1, EntryHosts, EntryRules, EntryReported DEF PathsInv
<1>2. CASE ~ConvertEntry
  <2>1. /\ ing' = ing /\ Reached' = Reached /\ rules' = rules /\ hostnames' = hostnames
        /\ issues \subseteq issues'
    BY <1>2, ReachedNext DEF PathsInv, RulesInv
  <2>2. PathsUpto(Reached)' = PathsUpto(Reached) /\ Place(Reached)' = Place(Reached)
    BY <2>1 DEF PathsUpto, Place
  <2>3. \A i \in PathsUpto(Reached) : /\ Place(i)' = Place(i)
                                      /\ RuleOf(ing.entries[i])' = RuleOf(ing.entries[i])
                                      /\ PathReported(ing.entries[i])' = PathReported(ing.entries[i])
    BY <2>1 DEF PathsUpto, Place, RuleOf, PathReported
  <2>4. ResultFailed => ResultFailed'
    BY <2>1 DEF ResultFailed
  <2>5. HostsInv'
    BY <2>1 DEF PathsInv, HostsInv
  <2>6. RulesInv'
    BY <2>1, <2>2, <2>3, <2>4 DEF PathsInv, RulesInv
  <2>7. ReportedInv'
    BY <2>1, <2>2, <2>3 DEF PathsInv, ReportedInv, Named
  <2>8. EmptyInv'
    <3>1. CASE Finish
      <4>1. rules = <<>> => <<"error", "rules", 0>> \in issues'
        BY <3>1 DEF Finish
      <4> QED
        BY <2>1, <4>1 DEF EmptyInv, ResultFailed
    <3>2. CASE ~Finish
      <4>1. pc' = "done" => pc = "done"
        BY <1>2, <3>2 DEF Next, TranslateAnnotation, StartPaths, vars
      <4> QED
        BY <2>1, <2>4, <4>1 DEF PathsInv, EmptyInv
    <3> QED
      BY <3>1, <3>2
  <2> QED
    BY <2>5, <2>6, <2>7, <2>8 DEF PathsInv
<1> QED
  BY <1>1, <1>2

LEMMA PathsAlways == Spec => [](TypeOK /\ PathsInv)
<1>1. TypeOK /\ PathsInv /\ [Next]_vars => TypeOK' /\ PathsInv'
  BY NextTypes, PathsNext
<1> QED
  BY InitTypes, PathsInit, <1>1, PTL DEF Spec

(* A route that is applied has a rule for every path of the Ingress, one   *)
(* for one and in order: what could not be converted fails the whole       *)
(* (engine.go:106-114, transfergw_controller.go:229-235).                  *)
THEOREM ConvertedWhole ==
  Spec => []WholeIngress
<1>1. ASSUME TypeOK, PathsInv, Converted
      PROVE  LET all == PathsUpto(Len(ing.entries))
             IN /\ Len(rules) = Cardinality(all)
                /\ \A i \in all :
                     rules[Cardinality(PathsUpto(i))].service = ing.entries[i].service
  <2>1. Reached = Len(ing.entries) /\ ~ResultFailed
    BY <1>1 DEF Converted, Reached
  <2>2. /\ Len(rules) = Place(Len(ing.entries))
        /\ \A i \in PathsUpto(Len(ing.entries)) : rules[Place(i)] = RuleOf(ing.entries[i])
    BY <1>1, <2>1 DEF PathsInv, RulesInv
  <2>3. \A e : RuleOf(e).service = e.service
    BY DEF RuleOf
  <2> QED
    BY <2>2, <2>3 DEF Place
<1>2. TypeOK /\ PathsInv => WholeIngress
  BY <1>1 DEF WholeIngress
<1> QED
  BY <1>2, PathsAlways, PTL

-----------------------------------------------------------------------------
(* Acceptance.                                                             *)

LEMMA AtMostOne ==
  ASSUME NEW S, IsFiniteSet(S)
  PROVE  Cardinality(S) <= 1 <=> \A i, j \in S : i = j
<1>1. CASE S = {}
  BY <1>1, FS_EmptySet
<1>2. CASE S # {}
  <2>1. PICK i \in S : TRUE
    BY <1>2
  <2>2. IsFiniteSet(S \ {i}) /\ Cardinality(S \ {i}) = Cardinality(S) - 1
    BY <2>1, FS_RemoveElement
  <2>3. Cardinality(S \ {i}) \in Nat /\ (Cardinality(S \ {i}) = 0 <=> S \ {i} = {})
    BY <2>2, FS_CardinalityType, FS_EmptySet
  <2>4. Cardinality(S) \in Nat
    BY FS_CardinalityType
  <2>5. Cardinality(S) <= 1 <=> S \ {i} = {}
    BY <2>2, <2>3, <2>4
  <2> QED
    BY <2>1, <2>5
<1> QED
  BY <1>1, <1>2

(* A filter stands among the filters of the rules once or more as it was   *)
(* asked for once or more.                                                 *)
LEMMA FiltersAre ==
  ASSUME TypeOK, AnnotationsInv, pc = "done", ~ing.grpc, NEW filter \in Filters
  PROVE  /\ Once(filter) <=> \A i, j \in With(filter, Kept) : i = j
         /\ filter \in ToSet(filters) <=> With(filter, Kept) # {}
<1> DEFINE P == Positions(filter)
           W == With(filter, Kept)
<1>1. Cardinality(P) = Cardinality(W)
  BY AllTranslated DEF AnnotationsInv, CountInv
<1>2. IsFiniteSet(P) /\ IsFiniteSet(W)
  BY Finite DEF Kept
<1>3. Once(filter) <=> Cardinality(P) <= 1
  BY DEF Once, Positions
<1>4. filter \in ToSet(filters) <=> P # {}
  BY DEF ToSet, Positions
<1> HIDE DEF P, W
<1>5. (P = {} <=> Cardinality(P) = 0) /\ (W = {} <=> Cardinality(W) = 0)
  BY <1>2, FS_EmptySet
<1>6. Cardinality(W) <= 1 <=> \A i, j \in W : i = j
  BY <1>2, AtMostOne
<1> QED
  BY <1>1, <1>3, <1>4, <1>5, <1>6 DEF W

(* The rules have an Exact match where the Ingress has an Exact path.      *)
LEMMA ExactAre ==
  ASSUME TypeOK, PathsInv, Converted, ~ing.grpc
  PROVE  (\A k \in DOMAIN rules : rules[k].match.type = "Prefix")
           <=> (\A i \in DOMAIN ing.entries : ing.entries[i].type # "Exact")
<1>1. \A e : RuleOf(e).match.type = IF e.type = "Exact" THEN "Exact" ELSE "Prefix"
  <2>1. SUFFICES ASSUME NEW e
                 PROVE  RuleOf(e).match.type = IF e.type = "Exact" THEN "Exact" ELSE "Prefix"
    OBVIOUS
  <2>2. RuleOf(e).match = ConvertPath(e)
    BY DEF RuleOf
  <2>3. ConvertPath(e).type = IF e.type = "Exact" THEN "Exact" ELSE "Prefix"
    BY DEF ConvertPath
  <2> QED
    BY <2>2, <2>3
<1>2. Reached = Len(ing.entries) /\ ~ResultFailed
  BY DEF Converted, Reached
<1>3. ASSUME NEW i \in DOMAIN ing.entries, ing.entries[i].type = "Exact"
      PROVE  \E k \in DOMAIN rules : rules[k].match.type # "Prefix"
  <2>1. i \in PathsUpto(Len(ing.entries)) /\ Len(ing.entries) \in Nat
    BY <1>3, InputTypes DEF PathsUpto
  <2>2. Len(rules) = Place(Len(ing.entries)) /\ rules[Place(i)] = RuleOf(ing.entries[i])
    BY <1>2, <2>1 DEF PathsInv, RulesInv
  <2>3. Place(i) \in 1..Len(rules) /\ rules \in Seq(RuleType)
    BY <2>1, <2>2, PlaceOrder DEF TypeOK, RuleType
  <2> QED
    BY <1>1, <1>3, <2>2, <2>3
<1>4. ASSUME NEW k \in DOMAIN rules, rules[k].match.type # "Prefix"
      PROVE  \E i \in DOMAIN ing.entries : ing.entries[i].type = "Exact"
  <2>1. PICK i \in PathsUpto(Len(ing.entries)) : rules[k] = RuleOf(ing.entries[i])
    BY <1>2 DEF PathsInv, RulesInv
  <2> QED
    BY <1>1, <1>4, <2>1, InputTypes DEF PathsUpto
<1> QED
  BY <1>3, <1>4

(* The longest backend timeout is within the longest request timeout, when *)
(* each is within some.                                                    *)
LEMMA TimeoutsAre ==
  ASSUME NEW B \in SUBSET (0..(NoTimeout - 1)), NEW R \in SUBSET (0..(NoTimeout - 1)),
         NEW b \in 0..NoTimeout, NEW r \in 0..NoTimeout, LongestOf(B, b), LongestOf(R, r)
  PROVE  (r \notin {0, NoTimeout} /\ b # NoTimeout => b <= r)
           <=> ((\E n \in R : n > 0) => \A m \in B : \E n \in R : m <= n)
<1>1. NoTimeout \in Nat
  BY DEF NoTimeout, Malformed
<1>2. CASE R = {}
  BY <1>2 DEF LongestOf
<1>3. CASE B = {}
  BY <1>3 DEF LongestOf
<1>4. CASE R # {} /\ B # {}
  <2>1. r \in R /\ b \in B /\ (\A n \in R : n <= r) /\ (\A m \in B : m <= b)
    BY <1>4 DEF LongestOf
  <2>2. \A n \in R \union B : n \in 0..(NoTimeout - 1)
    OBVIOUS
  <2>3. r # NoTimeout /\ b # NoTimeout
    BY <1>1, <2>1, <2>2
  <2>4. (\E n \in R : n > 0) <=> r # 0
    <3>1. r > 0 <=> r # 0
      OBVIOUS
    <3>2. ASSUME NEW n \in R, n > 0
          PROVE  r # 0
      BY <2>1, <2>2, <3>2
    <3> QED
      BY <2>1, <3>1, <3>2
  <2>5. (\A m \in B : \E n \in R : m <= n) <=> b <= r
    <3>1. ASSUME b <= r, NEW m \in B
          PROVE  \E n \in R : m <= n
      <4>1. m <= b /\ m \in Int /\ b \in Int /\ r \in Int
        BY <1>1, <2>1, <2>2
      <4>2. m <= r
        BY <3>1, <4>1
      <4> QED
        BY <2>1, <4>2
    <3>2. ASSUME NEW n \in R, b <= n
          PROVE  b <= r
      <4>1. n <= r /\ n \in Int /\ b \in Int /\ r \in Int
        BY <1>1, <2>1, <2>2
      <4> QED
        BY <3>2, <4>1
    <3> QED
      BY <2>1, <3>1, <3>2
  <2> QED
    BY <2>3, <2>4, <2>5
<1> QED
  BY <1>2, <1>3, <1>4

LEMMA SecondsAre ==
  ASSUME TypeOK, NEW kinds \in SUBSET {"readTimeout", "sendTimeout", "requestTimeout"}
  PROVE  SecondsOf(kinds, Kept) \in SUBSET (0..(NoTimeout - 1))
<1>1. SUFFICES ASSUME NEW i \in Kept, ~Unreadable(ing.annotations[i]),
                      ing.annotations[i].kind \in kinds
               PROVE  ing.annotations[i].seconds \in 0..(NoTimeout - 1)
  BY DEF SecondsOf
<1>2. ing.annotations[i] \in AnnotationType
  BY InputTypes DEF Kept
<1>3. ing.annotations[i].kind \in {"readTimeout", "sendTimeout", "requestTimeout"}
  BY <1>1
<1>4. NoTimeout = Malformed /\ NoTimeout \in Nat
  BY DEF NoTimeout, Malformed
<1> QED
  BY <1>1, <1>2, <1>3, <1>4 DEF Unreadable, AnnotationType

(* Which routes the API server accepts can be told from the annotations    *)
(* that are kept and the types of the paths, however many there are and in *)
(* whatever order their filters and timeouts were merged (nginx.go:34-35). *)
THEOREM AcceptanceIsDecided ==
  Spec => []AcceptedExactly
<1> DEFINE kind(i)  == ing.annotations[i].kind
           backend  == SecondsOf({"readTimeout", "sendTimeout"}, Kept)
           request  == SecondsOf({"requestTimeout"}, Kept)
           Apart    == \A i, j \in Kept :
                         kind(i) = kind(j) /\ FiltersOf(ing.annotations[i]) # <<>> => i = j
           NoExact  == \A k \in DOMAIN ing.entries : ing.entries[k].type # "Exact"
           InTime   == (\E n \in request : n > 0) => \A m \in backend : \E n \in request : m <= n
<1>1. ASSUME TypeOK, AnnotationsInv, PathsInv, Converted, ~ing.grpc
      PROVE  Accepts <=> Combinable
  <2>1. pc = "done" /\ ~ResultFailed /\ rules # <<>>
    BY <1>1 DEF Converted, PathsInv, EmptyInv
  <2>2. \A filter \in Filters :
          /\ Once(filter) <=> \A i, j \in With(filter, Kept) : i = j
          /\ filter \in ToSet(filters) <=> With(filter, Kept) # {}
    BY <1>1, <2>1, FiltersAre
  <2>3. /\ With("URLRewrite", Kept) = {i \in Kept : kind(i) = "rewrite"}
        /\ With("RequestRedirect", Kept) = {i \in Kept : kind(i) = "redirect"}
        /\ With("RequestHeaderModifier", Kept) = {i \in Kept : kind(i) = "header"}
        /\ With("CORS", Kept) = {i \in Kept : kind(i) = "cors"}
    BY FilterKinds DEF With
  <2>4. \A i \in Kept : FiltersOf(ing.annotations[i]) # <<>>
                           <=> kind(i) \in {"rewrite", "redirect", "header", "cors"}
    BY FilterKinds
  <2>5. (\A filter \in Filters : Once(filter)) <=> Apart
    <3>1. (\A filter \in Filters : Once(filter))
            <=> \A name \in {"rewrite", "redirect", "header", "cors"} :
                  \A i, j \in {k \in Kept : kind(k) = name} : i = j
      BY <2>2, <2>3 DEF Filters
    <3> QED
      BY <2>4, <3>1
  <2>6. "RequestRedirect" \in ToSet(filters) <=> \E i \in Kept : kind(i) = "redirect"
    BY <2>2, <2>3 DEF Filters
  <2>7. "URLRewrite" \in ToSet(filters) <=> \E i \in Kept : kind(i) = "rewrite"
    BY <2>2, <2>3 DEF Filters
  <2>8. (\A k \in DOMAIN rules : rules[k].match.type = "Prefix") <=> NoExact
    BY <1>1, ExactAre
  <2>9. (effect.request \notin {0, NoTimeout} /\ effect.backend # NoTimeout
          => effect.backend <= effect.request) <=> InTime
    <3>1. LongestOf(backend, effect.backend) /\ LongestOf(request, effect.request)
      BY <1>1, <2>1, AllTranslated DEF AnnotationsInv, BackendInv, RequestInv
    <3>2. /\ backend \in SUBSET (0..(NoTimeout - 1)) /\ request \in SUBSET (0..(NoTimeout - 1))
          /\ effect.backend \in 0..NoTimeout /\ effect.request \in 0..NoTimeout
      BY <1>1, SecondsAre DEF TypeOK
    <3> HIDE DEF backend, request
    <3> QED
      BY <3>1, <3>2, TimeoutsAre
  <2>10. Accepts <=>
           /\ \A filter \in Filters : Once(filter)
           /\ "RequestRedirect" \notin ToSet(filters)
           /\ "URLRewrite" \in ToSet(filters)
                => \A k \in DOMAIN rules : rules[k].match.type = "Prefix"
           /\ effect.request \notin {0, NoTimeout} /\ effect.backend # NoTimeout
                => effect.backend <= effect.request
    BY <2>1 DEF Accepts
  <2>11. Combinable <=>
           /\ \A i \in Kept : kind(i) # "redirect"
           /\ Apart
           /\ (\E i \in Kept : kind(i) = "rewrite") => NoExact
           /\ InTime
    BY DEF Combinable
  <2> HIDE DEF Apart, NoExact, InTime
  <2> QED
    BY <2>5, <2>6, <2>7, <2>8, <2>9, <2>10, <2>11
<1>2. TypeOK /\ AnnotationsInv /\ PathsInv => AcceptedExactly
  BY <1>1 DEF AcceptedExactly
<1> QED
  BY <1>2, AnnotationsAlways, PathsAlways, PTL

-----------------------------------------------------------------------------
(* Precedence.                                                             *)

LEMMA BeforeIs ==
  ASSUME NEW seq, NEW i, NEW j
  PROVE  Before(seq, i, j) <=>
           IF (seq[i].type = "Exact") # (seq[j].type = "Exact") THEN seq[i].type = "Exact"
           ELSE IF Len(seq[i].path) # Len(seq[j].path)
                THEN Len(seq[i].path) > Len(seq[j].path)
                ELSE i <= j
  BY DEF Before

(* Of the candidates one comes before all, if their paths are no longer    *)
(* than the one asked for.                                                 *)
LEMMA BestExists ==
  ASSUME NEW seq, NEW n \in Nat, NEW K \in Nat, NEW C \in SUBSET (1..n), C # {},
         \A i \in C : Len(seq[i].path) \in 0..K
  PROVE  Best(seq, C) \in C /\ \A j \in C : Before(seq, Best(seq, C), j)
<1> DEFINE exact == {i \in C : seq[i].type = "Exact"}
           first == IF exact # {} THEN exact ELSE C
           lengths == {Len(seq[i].path) : i \in first}
<1>1. first \in SUBSET C /\ first # {}
  OBVIOUS
<1>2. lengths \in SUBSET (0..K) /\ lengths # {}
  BY <1>1
<1> HIDE DEF lengths
<1>3. PICK l \in lengths : \A k \in lengths : k <= l
  BY <1>2, GreatestExists
<1> USE DEF lengths
<1> DEFINE longest == {i \in first : Len(seq[i].path) = l}
<1>4. longest \in SUBSET Nat /\ longest # {}
  <2>1. first \in SUBSET Nat
    <3>1. C \in SUBSET Nat
      OBVIOUS
    <3> HIDE DEF first
    <3> QED
      BY <1>1, <3>1
  <2>2. \E i \in first : Len(seq[i].path) = l
    BY <1>3
  <2> HIDE DEF first, lengths
  <2> QED
    BY <2>1, <2>2
<1> HIDE DEF longest
<1>5. PICK b \in longest : \A i \in longest : b <= i
  BY <1>4, LeastExists
<1> USE DEF longest
<1>6. b \in C /\ b \in first
  BY <1>1
<1>7. ASSUME NEW j \in C
      PROVE  Before(seq, b, j)
  <2>1. CASE (seq[b].type = "Exact") # (seq[j].type = "Exact")
    <3>1. seq[b].type = "Exact"
      BY <1>6, <2>1
    <3> QED
      BY <2>1, <3>1, BeforeIs
  <2>2. CASE (seq[b].type = "Exact") = (seq[j].type = "Exact")
    <3>1. j \in first
      BY <1>6, <2>2
    <3>2. Len(seq[j].path) <= l /\ Len(seq[b].path) = l
      BY <1>3, <3>1
    <3>3. Len(seq[j].path) \in 0..K /\ l \in 0..K
      BY <1>2, <1>3
    <3>4. Len(seq[j].path) = l => b <= j
      BY <1>5, <3>1
    <3> HIDE DEF first, longest, lengths
    <3> QED
      BY <2>2, <3>2, <3>3, <3>4, BeforeIs
  <2> QED
    BY <2>1, <2>2
<1> QED
  BY <1>6, <1>7 DEF Best

LEMMA BestIs ==
  ASSUME NEW seq, NEW C \in SUBSET Nat, \A i \in C : Len(seq[i].path) \in Nat,
         NEW b \in C, \A j \in C : Before(seq, b, j)
  PROVE  Best(seq, C) = b
<1> DEFINE c == Best(seq, C)
<1>1. c \in C /\ \A j \in C : Before(seq, c, j)
  BY DEF Best
<1> HIDE DEF c
<1>2. Before(seq, b, c) /\ Before(seq, c, b)
  BY <1>1
<1>3. (seq[b].type = "Exact") = (seq[c].type = "Exact")
  BY <1>2, BeforeIs
<1>4. Len(seq[b].path) = Len(seq[c].path)
  BY <1>1, <1>2, <1>3, BeforeIs
<1>5. b <= c /\ c <= b
  BY <1>2, <1>3, <1>4, BeforeIs
<1>6. b = c
  <2>1. b \in Nat /\ c \in Nat
    BY <1>1
  <2> QED
    BY <1>5, <2>1
<1> QED
  BY <1>6 DEF c

-----------------------------------------------------------------------------
(* Matches.                                                                *)

LEMMA PrefixIs ==
  ASSUME NEW s \in Seq(STRING), NEW t \in Seq(STRING)
  PROVE  IsPrefix(s, t) <=> Len(s) <= Len(t) /\ \A i \in 1..Len(s) : s[i] = t[i]
<1>1. SUFFICES ASSUME Len(s) <= Len(t)
               PROVE  SubSeq(s, 1, Len(s)) = SubSeq(t, 1, Len(s))
                        <=> \A i \in 1..Len(s) : s[i] = t[i]
  BY DEF IsPrefix
<1> DEFINE a == SubSeq(s, 1, Len(s))
           b == SubSeq(t, 1, Len(s))
<1>2. Len(s) \in Nat /\ Len(t) \in Nat
  OBVIOUS
<1>3. /\ a \in Seq(STRING) /\ Len(a) = Len(s) /\ \A i \in 1..Len(s) : a[i] = s[i]
      /\ b \in Seq(STRING) /\ Len(b) = Len(s) /\ \A i \in 1..Len(s) : b[i] = t[i]
  BY <1>1, <1>2
<1> HIDE DEF a, b
<1>4. a = b <=> \A i \in 1..Len(s) : a[i] = b[i]
  BY <1>3, SeqEqual
<1>5. a = b <=> \A i \in 1..Len(s) : s[i] = t[i]
  BY <1>3, <1>4
<1> QED
  BY <1>5 DEF a, b

(* A path without a regular expression keeps its meaning.                  *)
LEMMA MatchKept ==
  ASSUME NEW entry \in EntryType, entry.type \in {"Exact", "Prefix"}, ~ing.grpc,
         NEW path \in Seq(STRING)
  PROVE  /\ RuleOf(entry).match.type = entry.type /\ RuleOf(entry).match.path = entry.path
         /\ RuleMatches(RuleOf(entry).match, path) <=> EntryMatches(entry, path)
<1>1. RuleOf(entry).match.type = entry.type /\ RuleOf(entry).match.path = entry.path
  BY DEF RuleOf, ConvertPath
<1>2. CASE entry.type = "Exact"
  BY <1>1, <1>2 DEF RuleMatches, EntryMatches
<1>3. CASE entry.type = "Prefix"
  BY <1>1, <1>3 DEF RuleMatches, EntryMatches
<1> QED
  BY <1>1, <1>2, <1>3

-----------------------------------------------------------------------------
(* Requests.                                                               *)

(* The rules of an Ingress are all for one host, or all for none.          *)
OneHostEach ==
  \A ingress \in Ingresses : \A i, j \in DOMAIN ingress.entries :
    ingress.entries[i].host = ingress.entries[j].host

HostFits(host) == hostnames = {} \/ host \in hostnames

(* The entries that fit a request, and the rules that do.                  *)
EntriesFit(host, path) ==
  {i \in DOMAIN ing.entries : HostFits(host) /\ EntryMatches(ing.entries[i], path)}

Matches == [k \in DOMAIN rules |-> rules[k].match]

RulesFit(host, path) ==
  {k \in DOMAIN rules : HostFits(host) /\ RuleMatches(Matches[k], path)}

LEMMA RoutedIs ==
  ASSUME NEW host, NEW path
  PROVE  Routed(host, path) = IF RulesFit(host, path) = {} THEN None
                              ELSE rules[Best(Matches, RulesFit(host, path))].service
  BY DEF Routed, RulesFit, Matches, HostFits

(* With one host, the Ingress looks among the entries the hosts of the     *)
(* route leave it.                                                         *)
LEMMA ServedIs ==
  ASSUME OneHostEach, TypeOK, PathsInv, Converted, NEW host \in Hosts, NEW path
  PROVE  Served(host, path) = IF EntriesFit(host, path) = {} THEN None
                              ELSE ing.entries[Best(ing.entries, EntriesFit(host, path))].service
<1> DEFINE ofHost == {i \in DOMAIN ing.entries : ing.entries[i].host = host}
           pool   == IF ofHost # {} THEN ofHost
                     ELSE {i \in DOMAIN ing.entries : ing.entries[i].host = NoHost}
           fit    == {i \in pool : EntryMatches(ing.entries[i], path)}
<1>1. hostnames = {ing.entries[i].host : i \in DOMAIN ing.entries} \ {NoHost}
  BY InputTypes DEF PathsInv, HostsInv, Converted, Reached
<1>2. \A i, j \in DOMAIN ing.entries : ing.entries[i].host = ing.entries[j].host
  BY InputTypes DEF OneHostEach
<1>3. host # NoHost
  BY ConversionAssumption
<1>4. ASSUME NEW i \in DOMAIN ing.entries
      PROVE  i \in pool <=> HostFits(host)
  <2>1. CASE ing.entries[i].host = host
    <3>1. i \in pool
      BY <2>1
    <3> QED
      BY <1>1, <1>3, <2>1, <3>1 DEF HostFits
  <2>2. CASE ing.entries[i].host # host
    <3>1. ofHost = {}
      BY <1>2, <2>2
    <3>2. i \in pool <=> ing.entries[i].host = NoHost
      BY <3>1
    <3>3. host \notin hostnames
      BY <1>1, <3>1
    <3>4. hostnames = {} <=> ing.entries[i].host = NoHost
      BY <1>1, <1>2
    <3> QED
      BY <3>2, <3>3, <3>4 DEF HostFits
  <2> QED
    BY <2>1, <2>2
<1>5. pool \subseteq DOMAIN ing.entries
  OBVIOUS
<1> HIDE DEF pool
<1>6. fit = EntriesFit(host, path)
  BY <1>4, <1>5 DEF EntriesFit
<1>7. Served(host, path) = IF fit = {} THEN None ELSE ing.entries[Best(ing.entries, fit)].service
  BY DEF Served, pool
<1> QED
  BY <1>6, <1>7

(* In a route that is applied, every path has its rule.                    *)
LEMMA RuleStands ==
  ASSUME TypeOK, PathsInv, Converted, NEW i \in DOMAIN ing.entries, ing.entries[i].type # "NoHTTP"
  PROVE  /\ Place(i) \in DOMAIN rules /\ Convertible(ing.entries[i])
         /\ rules[Place(i)].service = ing.entries[i].service
         /\ Matches[Place(i)] = RuleOf(ing.entries[i]).match
<1>1. Reached = Len(ing.entries) /\ ~ResultFailed
  BY DEF Converted, Reached
<1>2. i \in PathsUpto(Len(ing.entries)) /\ Len(ing.entries) \in Nat
  BY InputTypes DEF PathsUpto
<1>3. /\ Len(rules) = Place(Len(ing.entries)) /\ Convertible(ing.entries[i])
      /\ rules[Place(i)] = RuleOf(ing.entries[i])
  BY <1>1, <1>2 DEF PathsInv, RulesInv
<1>4. Place(i) \in 1..Len(rules) /\ rules \in Seq(RuleType)
  BY <1>2, <1>3, PlaceOrder DEF TypeOK, RuleType
<1>5. RuleOf(ing.entries[i]).service = ing.entries[i].service
  BY DEF RuleOf
<1> QED
  BY <1>3, <1>4, <1>5 DEF Matches

(* Every rule stands for a path.                                           *)
LEMMA RuleStems ==
  ASSUME TypeOK, PathsInv, Converted, NEW k \in DOMAIN rules
  PROVE  \E i \in DOMAIN ing.entries : ing.entries[i].type # "NoHTTP" /\ k = Place(i)
<1>1. Reached = Len(ing.entries) /\ ~ResultFailed
  BY DEF Converted, Reached
<1>2. PICK i \in PathsUpto(Len(ing.entries)) : k = Place(i)
  BY <1>1 DEF PathsInv, RulesInv
<1> QED
  BY <1>2, InputTypes DEF PathsUpto

(* No path that is approximated concerns the request.                      *)
Unconcerned(path) ==
  \A i \in DOMAIN ing.entries : ing.entries[i].type = "ImplementationSpecific" => ~Concerns(i, path)

(* Rules have the precedence of their paths.                               *)
LEMMA PrecedenceKept ==
  ASSUME TypeOK, PathsInv, Converted, ~ing.grpc,
         NEW i \in DOMAIN ing.entries, ing.entries[i].type \in {"Exact", "Prefix"},
         NEW j \in DOMAIN ing.entries, ing.entries[j].type \in {"Exact", "Prefix"},
         Before(ing.entries, i, j)
  PROVE  Before(Matches, Place(i), Place(j))
<1>1. /\ Matches[Place(i)].type = ing.entries[i].type /\ Matches[Place(i)].path = ing.entries[i].path
      /\ Matches[Place(j)].type = ing.entries[j].type /\ Matches[Place(j)].path = ing.entries[j].path
  <2>1. ASSUME NEW e, e.type \in {"Exact", "Prefix"}
        PROVE  RuleOf(e).match.type = e.type /\ RuleOf(e).match.path = e.path
    <3>1. RuleOf(e).match = ConvertPath(e)
      BY DEF RuleOf
    <3> QED
      BY <2>1, <3>1 DEF ConvertPath
  <2>2. /\ Matches[Place(i)] = RuleOf(ing.entries[i]).match
        /\ Matches[Place(j)] = RuleOf(ing.entries[j]).match
    BY RuleStands
  <2> QED
    BY <2>1, <2>2
<1>2. i <= j => Place(i) <= Place(j)
  BY InputTypes, PlaceGrows
<1> QED
  BY <1>1, <1>2, BeforeIs

(* A request that no approximated path concerns is answered as it was.     *)
LEMMA AnsweredAlike ==
  ASSUME OneHostEach, TypeOK, PathsInv, Converted, ~ing.grpc,
         NEW host \in Hosts, NEW path \in Requests, Unconcerned(path)
  PROVE  Routed(host, path) = Served(host, path)
<1> DEFINE E == EntriesFit(host, path)
           R == RulesFit(host, path)
<1>1. path \in Seq(STRING) /\ Len(path) \in Nat
  BY ConversionAssumption
<1>2. ASSUME NEW i \in E
      PROVE  /\ i \in DOMAIN ing.entries /\ ing.entries[i].type # "NoHTTP"
             /\ ing.entries[i].type \in {"Exact", "Prefix"} /\ ing.entries[i] \in EntryType
             /\ EntryMatches(ing.entries[i], path) /\ HostFits(host)
  <2>1. i \in DOMAIN ing.entries /\ EntryMatches(ing.entries[i], path) /\ HostFits(host)
    BY <1>2 DEF EntriesFit
  <2>2. ing.entries[i].type # "NoHTTP"
    BY <2>1 DEF EntryMatches
  <2>3. ing.entries[i].type # "ImplementationSpecific"
    BY <2>1 DEF Unconcerned, Concerns
  <2> QED
    BY <2>1, <2>2, <2>3, InputTypes DEF EntryType, PathTypes
<1>3. ASSUME NEW i \in E
      PROVE  Place(i) \in R
  BY <1>1, <1>2, <1>3, RuleStands, MatchKept DEF RulesFit
<1>4. ASSUME NEW k \in R
      PROVE  \E i \in E : k = Place(i)
  <2>1. k \in DOMAIN rules /\ HostFits(host) /\ RuleMatches(Matches[k], path)
    BY <1>4 DEF RulesFit
  <2>2. PICK i \in DOMAIN ing.entries : ing.entries[i].type # "NoHTTP" /\ k = Place(i)
    BY <2>1, RuleStems
  <2>3. Matches[k] = RuleOf(ing.entries[i]).match
    BY <2>2, RuleStands
  <2>4. ing.entries[i] \in EntryType /\ ing.entries[i].type \in {"Exact", "Prefix"}
    <3>1. RuleOf(ing.entries[i]).match = ConvertPath(ing.entries[i])
      BY DEF RuleOf
    <3>2. ing.entries[i].type # "ImplementationSpecific"
      BY <2>1, <2>2, <2>3, <3>1 DEF Unconcerned, Concerns
    <3> QED
      BY <2>2, <3>2, InputTypes DEF EntryType, PathTypes
  <2>5. EntryMatches(ing.entries[i], path)
    BY <1>1, <2>1, <2>3, <2>4, MatchKept
  <2> QED
    BY <2>1, <2>2, <2>5 DEF EntriesFit
<1>5. CASE E = {}
  <2>1. R = {}
    BY <1>4, <1>5
  <2> QED
    BY <1>5, <2>1, ServedIs, RoutedIs
<1>6. CASE E # {}
  <2> DEFINE b == Best(ing.entries, E)
  <2>1. ASSUME NEW i \in E
        PROVE  Len(ing.entries[i].path) \in 0..Len(path)
    <3>1. ing.entries[i].path \in Seq(STRING)
      BY <1>2 DEF EntryType
    <3>2. Len(ing.entries[i].path) \in Nat
      BY <3>1
    <3>3. Len(ing.entries[i].path) <= Len(path)
      <4>1. CASE ing.entries[i].type = "Exact"
        <5>1. path = ing.entries[i].path
          BY <1>2, <4>1 DEF EntryMatches
        <5> QED
          BY <1>1, <5>1
      <4>2. CASE ing.entries[i].type = "Prefix"
        BY <1>1, <1>2, <3>2, <4>2 DEF EntryMatches, IsPrefix
      <4> QED
        BY <1>2, <4>1, <4>2
    <3> QED
      BY <1>1, <3>2, <3>3
  <2>2. E \in SUBSET (1..Len(ing.entries)) /\ Len(ing.entries) \in Nat
    BY InputTypes DEF EntriesFit
  <2> HIDE DEF E, R
  <2>3. b \in E /\ \A j \in E : Before(ing.entries, b, j)
    BY <1>1, <1>6, <2>1, <2>2, BestExists
  <2> HIDE DEF b
  <2>4. Place(b) \in R /\ \A k \in R : Before(Matches, Place(b), k)
    <3>1. ASSUME NEW k \in R
          PROVE  Before(Matches, Place(b), k)
      <4>1. PICK i \in E : k = Place(i)
        BY <1>4
      <4> QED
        BY <1>2, <2>3, <4>1, PrecedenceKept
    <3> QED
      BY <1>3, <2>3, <3>1
  <2>5. R \in SUBSET Nat /\ \A k \in R : Len(Matches[k].path) \in Nat
    <3>1. rules \in Seq(RuleType)
      BY DEF TypeOK, RuleType
    <3>2. DOMAIN rules \in SUBSET Nat
      BY <3>1
    <3>3. \A k \in DOMAIN rules : Len(Matches[k].path) \in Nat
      BY <3>1 DEF Matches, RuleType
    <3> QED
      BY <3>2, <3>3 DEF R, RulesFit
  <2>6. Best(Matches, R) = Place(b)
    BY <2>4, <2>5, BestIs
  <2>7. Routed(host, path) = rules[Place(b)].service
    BY <2>4, <2>6, RoutedIs DEF R
  <2>8. Served(host, path) = ing.entries[b].service
    BY <1>6, ServedIs DEF E, b
  <2>9. rules[Place(b)].service = ing.entries[b].service
    BY <1>2, <2>3, RuleStands
  <2> QED
    BY <2>7, <2>8, <2>9
<1> QED
  BY <1>5, <1>6

(* With one host per Ingress, whichever request goes astray fits a path    *)
(* that an issue names, for any number of paths, whatever the controller   *)
(* takes for a path of type ImplementationSpecific (route.go:45-61).       *)
THEOREM MisroutesAreTold ==
  OneHostEach => (Spec => []MisroutesAreNamed)
<1> SUFFICES ASSUME OneHostEach
             PROVE  Spec => []MisroutesAreNamed
  OBVIOUS
<1>1. ASSUME TypeOK, PathsInv, Converted, ~ing.grpc, NEW host \in Hosts, NEW path \in Requests,
             Routed(host, path) # Served(host, path)
      PROVE  \E i \in DOMAIN ing.entries :
               ing.entries[i].type # "NoHTTP" /\ Named(i) /\ Concerns(i, path)
  <2>1. PICK i \in DOMAIN ing.entries :
          ing.entries[i].type = "ImplementationSpecific" /\ Concerns(i, path)
    BY <1>1, AnsweredAlike DEF Unconcerned
  <2>2. i \in PathsUpto(Reached)
    BY <1>1, <2>1, InputTypes DEF PathsUpto, Reached, Converted
  <2>3. PathReported(ing.entries[i])
    BY <1>1, <2>1 DEF PathReported
  <2> QED
    BY <1>1, <2>1, <2>2, <2>3 DEF PathsInv, ReportedInv
<1>2. TypeOK /\ PathsInv => MisroutesAreNamed
  BY <1>1 DEF MisroutesAreNamed
<1> QED
  BY <1>2, PathsAlways, PTL

(* With one host per Ingress, what was converted without an issue answers  *)
(* every HTTP request as the Ingress did, for any number of paths          *)
(* (README.md:12-14).                                                      *)
THEOREM SameAnswers ==
  OneHostEach => (Spec => []SameBackends)
<1>1. MisroutesAreNamed => SameBackends
  BY DEF MisroutesAreNamed, SameBackends, Named
<1> QED
  BY <1>1, MisroutesAreTold, PTL
=============================================================================
