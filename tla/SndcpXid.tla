------------------------------ MODULE SndcpXid ------------------------------
(***************************************************************************)
(* The octets of XID messages: the XID fields of LLC (gprs_llc_xid.c) and  *)
(* the compression fields of SNDCP that one of them carries                *)
(* (gprs_sndcp_xid.c).  Lists are sequences, head first; a parameter that  *)
(* is not there is -1, as in the code.  A field's params are those of its  *)
(* algorithm in the order of the message; ROHC's profiles follow its two   *)
(* parameters.                                                             *)
(***************************************************************************)
EXTENDS Integers, Sequences, FiniteSets, SequencesExt, FiniteSetsExt

MAX_ENTITIES == 32
Absent == -1

\* Algorithms, by class and number; "none" is what the code does not know.
Pcomp == <<"RFC_1144", "RFC_2507", "ROHC">>
Dcomp == <<"V42BIS", "V44">>
AlgoOf(class, n) ==
  LET table == IF class = "pcomp" THEN Pcomp ELSE Dcomp
  IN  IF n < Len(table) THEN table[n + 1] ELSE "none"
gprs_sndcp_get_compression_class(f) ==
  CASE f.algo \in Range(Pcomp) -> "pcomp"
    [] f.algo \in Range(Dcomp) -> "dcomp"
    [] OTHER -> "invalid"
Number(a) == (CHOOSE n \in 1..3 : (n <= Len(Pcomp) /\ Pcomp[n] = a) \/ (n <= Len(Dcomp) /\ Dcomp[n] = a)) - 1
\* The number of PCOMP or DCOMP values of an algorithm.
CompNum == [RFC_1144 |-> 2, RFC_2507 |-> 5, ROHC |-> 2, V42BIS |-> 1, V44 |-> 2]

-----------------------------------------------------------------------------
(* Encoding.  A parameter: its octets and the values that are asserted.    *)

Param(octets, min, max) == [octets |-> octets, min |-> min, max |-> max]
Profiles == [i \in 1..16 |-> Param(2, 0, 65535)]

encode_pcomp_rfc1144_params == <<Param(1, 0, 255)>>
encode_pcomp_rfc2507_params ==
  <<Param(2, 1, 65535), Param(1, 1, 255), Param(1, 60, 255), Param(1, 3, 255), Param(2, 3, 65535)>>
encode_pcomp_rohc_params == <<Param(2, 0, 16383), Param(2, 60, 255)>> \o Profiles
encode_dcomp_v42bis_params == <<Param(1, 0, 3), Param(2, 512, 65535), Param(1, 6, 250)>>
encode_dcomp_v44_params ==
  <<Param(1, 128, 192), Param(1, 0, 3), Param(2, 256, 65535), Param(2, 256, 65535),
    Param(2, 512, 65535), Param(2, 512, 65535)>>
Encoder ==
  [RFC_1144 |-> encode_pcomp_rfc1144_params, RFC_2507 |-> encode_pcomp_rfc2507_params,
   ROHC |-> encode_pcomp_rohc_params, V42BIS |-> encode_dcomp_v42bis_params,
   V44 |-> encode_dcomp_v44_params]

\* c0 is one of two values, and the history is at least twice the dictionary.
V44Valid(v) == v[1] \in {128, 192} /\ v[5] >= 2 * v[3] /\ v[6] >= 2 * v[4]
\* No assertion of the encoder fails.
Encodable(f) ==
  /\ \A i \in DOMAIN f.params : f.params[i] \in Encoder[f.algo][i].min .. Encoder[f.algo][i].max
  /\ f.algo = "V44" => V44Valid(f.params)

Octets(n, v) == IF n = 1 THEN <<v>> ELSE <<v \div 256, v % 256>>
encode_params(f) == FlattenSeq([i \in DOMAIN f.params |-> Octets(Encoder[f.algo][i].octets, f.params[i])])

encode_pcomp_applicable_sapis(nsapis) == Octets(2, FoldSet(LAMBDA n, blob : blob + 2^n, 0, nsapis))

\* Two values to an octet, the first one in the high half.
CompOctets(comp) ==
  [i \in 1..((Len(comp) + 1) \div 2) |->
     16 * comp[2 * i - 1] + (IF 2 * i <= Len(comp) THEN comp[2 * i] ELSE 0)]

EncodedField(f, comps, payload) ==
  IF f.p THEN <<128 + f.entity, Number(f.algo), Len(payload) + Len(comps)>> \o comps \o payload
         ELSE <<f.entity, Len(payload)>> \o payload
encode_comp_field(f) ==
  EncodedField(f, CompOctets(f.comp), encode_pcomp_applicable_sapis(f.nsapis) \o encode_params(f))

EncodedFields(fields) == FlattenSeq([i \in DOMAIN fields |-> encode_comp_field(fields[i])])
gprs_sndcp_pack_fields(fields, class) ==
  EncodedFields(Reverse(SelectSeq(fields, LAMBDA f : gprs_sndcp_get_compression_class(f) = class)))

Tlv(tag, octets) == IF octets = <<>> THEN <<>> ELSE <<tag, Len(octets)>> \o octets

\* A version below zero is left out.
gprs_sndcp_compile_xid(fields, version) ==
     (IF version >= 0 THEN Tlv(0, <<version>>) ELSE <<>>)
  \o Tlv(1, gprs_sndcp_pack_fields(fields, "dcomp"))
  \o Tlv(2, gprs_sndcp_pack_fields(fields, "pcomp"))

-----------------------------------------------------------------------------
(* Decoding.  A parameter: its octets and the values that are taken.       *)

decode_pcomp_rfc1144_params == <<Param(1, 0, 255)>>
decode_pcomp_rfc2507_params ==
  <<Param(2, 1, 65535), Param(1, 1, 255), Param(1, 60, 255), Param(1, 3, 255), Param(2, 3, 65535)>>
decode_pcomp_rohc_params == <<Param(2, 0, 16383), Param(2, 60, 255)>> \o Profiles
decode_dcomp_v42bis_params == <<Param(1, 0, 3), Param(2, 512, 65535), Param(1, 6, 250)>>
decode_dcomp_v44_params ==
  <<Param(1, 0, 255), Param(1, 0, 3), Param(2, 265, 65535), Param(2, 265, 65535),
    Param(2, 265, 65535), Param(2, 265, 65535)>>
Decoder ==
  [RFC_1144 |-> decode_pcomp_rfc1144_params, RFC_2507 |-> decode_pcomp_rfc2507_params,
   ROHC |-> decode_pcomp_rohc_params, V42BIS |-> decode_dcomp_v42bis_params,
   V44 |-> decode_dcomp_v44_params]

Value(octets) == FoldLeft(LAMBDA a, o : 256 * a + o, 0, octets)
SumOctets(layout, n) == FoldLeft(LAMBDA a, q : a + q.octets, 0, SubSeq(layout, 1, n))

decode_pcomp_applicable_sapis(octets) ==
  {i + 5 : i \in {j \in 0..14 : (Value(octets) \div 2^(j + 5)) % 2 = 1}}

\* The parameters up to the first one that is missing or out of bounds.
DecodedParams(layout, octets) ==
  LET At(i) == Value(SubSeq(octets, SumOctets(layout, i - 1) + 1, SumOctets(layout, i)))
      Good(i) == SumOctets(layout, i) <= Len(octets) /\ At(i) \in layout[i].min .. layout[i].max
      n == Max({0} \cup {i \in DOMAIN layout : \A j \in 1..i : Good(j)})
  IN  [i \in 1..n |-> At(i)]

\* What is not decoded is absent; ROHC's profiles count only when all 16 are there.
PaddedParams(algo, v) ==
  [i \in 1..(IF algo = "ROHC" THEN (IF Len(v) = 18 THEN 18 ELSE 2) ELSE Len(Decoder[algo])) |->
     IF i <= Len(v) THEN v[i] ELSE Absent]
\* V.44's own tests refuse the whole message.
V44Refused(v) ==
  \/ Len(v) >= 1 /\ v[1] \notin {128, 192}
  \/ Len(v) >= 5 /\ v[5] < 2 * v[3]
  \/ Len(v) >= 6 /\ v[6] < 2 * v[4]

\* The algorithm of an entity of the request.
lookup_algorithm_identifier(table, entity, class) ==
  LET i == SelectInSeq(table, LAMBDA f : f.entity = entity /\ gprs_sndcp_get_compression_class(f) = class)
  IN  IF i = 0 THEN "none" ELSE table[i].algo

decode_comp_values(algo, octets) ==
  [i \in 1..CompNum[algo] |->
     IF i % 2 = 1 THEN octets[(i + 1) \div 2] \div 16 ELSE octets[i \div 2] % 16]

\* The head of a field; a proposal names the algorithm, an answer that of the request is meant.
FieldHead(octets, table, class) ==
  IF octets[1] >= 128
  THEN [p |-> TRUE, entity |-> octets[1] % 32, algo |-> AlgoOf(class, octets[2] % 32), len |-> 3]
  ELSE [p |-> FALSE, entity |-> octets[1] % 32, len |-> 2,
        algo |-> lookup_algorithm_identifier(table, octets[1] % 32, class)]
HeadComp(h, rest) == IF h.p /\ h.algo # "none" THEN decode_comp_values(h.algo, rest) ELSE <<>>
CompLen(comp) == (Len(comp) + 1) \div 2

\* used: the octets of the field, which ends with the last parameter that is taken.
FieldDone(h, comp, payload, v) ==
  LET known == h.algo # "none" /\ Len(payload) >= 2
  IN  [ok |-> ~(h.p /\ h.algo = "none") /\ ~(h.algo = "V44" /\ V44Refused(v)),
       used |-> h.len + CompLen(comp)
                + (IF h.algo = "none" THEN Len(payload) ELSE IF known THEN 2 + SumOctets(Decoder[h.algo], Len(v)) ELSE 0),
       field |-> [p |-> h.p, entity |-> h.entity, algo |-> h.algo, comp |-> comp,
                  nsapis |-> IF known THEN decode_pcomp_applicable_sapis(SubSeq(payload, 1, 2)) ELSE {},
                  params |-> IF h.algo = "none" THEN <<>> ELSE PaddedParams(h.algo, v)]]
FieldParams(h, comp, payload) ==
  FieldDone(h, comp, payload,
            IF h.algo = "none" \/ Len(payload) < 2 THEN <<>>
            ELSE DecodedParams(Decoder[h.algo], SubSeq(payload, 3, Len(payload))))
FieldBody(octets, h, comp) ==
  FieldParams(h, comp, SubSeq(octets, h.len + CompLen(comp) + 1, h.len + octets[h.len]))
FieldRest(octets, h) == FieldBody(octets, h, HeadComp(h, SubSeq(octets, h.len + 1, Len(octets))))
\* The first field of the octets.
decode_comp_field(octets, table, class) == FieldRest(octets, FieldHead(octets, table, class))

FieldTaken(st, d) ==
  [ok |-> d.ok, fields |-> IF d.ok THEN <<d.field>> \o st.fields ELSE st.fields,
   rest |-> SubSeq(st.rest, d.used + 1, Len(st.rest))]
AllTaken(st) == [st EXCEPT !.ok = @ /\ st.rest = <<>>]
FieldPass(st, table, class) ==
  IF ~st.ok \/ st.rest = <<>> THEN st ELSE FieldTaken(st, decode_comp_field(st.rest, table, class))
\* A pass for each field; one field too many fails, and so does none.
decode_xid_block(fields, octets, table, class) ==
  LET pass[i \in 0..(2 * MAX_ENTITIES + 1)] ==
        IF i = 0 THEN [ok |-> octets # <<>>, fields |-> fields, rest |-> octets] ELSE FieldPass(pass[i - 1], table, class)
  IN  AllTaken(pass[2 * MAX_ENTITIES + 1])

BlockTaken(st, d) == [ok |-> d.ok, fields |-> d.fields, rest |-> SubSeq(st.rest, 3 + st.rest[2], Len(st.rest))]
XidTaken(st) == [st EXCEPT !.ok = @ /\ Len(st.rest) <= 2]
TlvPass(st, table, first) ==
  IF ~st.ok \/ (~first /\ Len(st.rest) <= 2) THEN st
  ELSE BlockTaken(st, IF st.rest[1] \notin {1, 2} THEN st
                      ELSE decode_xid_block(st.fields, SubSeq(st.rest, 3, 2 + st.rest[2]), table,
                                            IF st.rest[1] = 1 THEN "dcomp" ELSE "pcomp"))
\* At most three TLVs; two octets or less at the end are not looked at.
gprs_sndcp_decode_xid(octets, table) ==
  LET one == TlvPass([ok |-> TRUE, fields |-> <<>>, rest |-> octets], table, TRUE)
      two == TlvPass(one, table, FALSE)
  IN  XidTaken(TlvPass(two, table, FALSE))

-----------------------------------------------------------------------------
(* Completing a confirmation from the request.                             *)

gprs_sndcp_fill_table(req) == SelectSeq(req, LAMBDA f : gprs_sndcp_get_compression_class(f) # "invalid")

complete_comp_field_params(f, src) ==
  [i \in DOMAIN f.params |->
     IF f.algo = "ROHC" /\ i > 2 THEN src.params[i]
     ELSE IF f.params[i] = Absent THEN src.params[i] ELSE f.params[i]]

\* Mutant: the values of the request are not taken over.
gprs_sndcp_complete_comp_field_KeepsComp(st, src) ==
  IF src.entity # st.field.entity THEN st
  ELSE LET ok == st.field.algo = src.algo
       IN  [ok |-> ok, field |-> [st.field EXCEPT !.params = IF ok THEN complete_comp_field_params(st.field, src) ELSE @]]

\* The fields of the request with the same entity number are tried one after the other.
gprs_sndcp_complete_comp_field(st, src) ==
  IF src.entity # st.field.entity THEN st
  ELSE LET ok == st.field.algo = src.algo /\ src.algo # "none"
       IN  [ok |-> ok,
            field |-> [st.field EXCEPT !.comp = IF src.comp = <<>> THEN @ ELSE src.comp,
                                       !.params = IF ok THEN complete_comp_field_params(st.field, src) ELSE @]]
gprs_sndcp_complete_comp_fields(fields, req) ==
  [i \in DOMAIN fields |-> FoldLeft(gprs_sndcp_complete_comp_field, [ok |-> TRUE, field |-> fields[i]], req)]

Completed(c) == [ok |-> \A i \in DOMAIN c : c[i].ok, fields |-> [i \in DOMAIN c |-> c[i].field]]
Parsed(d, req) ==
  IF req = <<>> \/ ~d.ok THEN [ok |-> d.ok, fields |-> d.fields]
                         ELSE Completed(gprs_sndcp_complete_comp_fields(d.fields, req))
\* The fields of a message, if it has any; with a request they are completed from it.
gprs_sndcp_parse_xid(octets, req) ==
  IF octets = <<>> THEN [ok |-> FALSE, fields |-> <<>>]
                   ELSE Parsed(gprs_sndcp_decode_xid(octets, gprs_sndcp_fill_table(req)), req)

-----------------------------------------------------------------------------
(* The XID fields of LLC: type, and data of at most 255 octets.            *)

\* Three octets and less have a short length.
encode_xid_field(f) ==
  LET n == Len(f.data)
  IN  (IF n > 3 THEN <<128 + 4 * f.type + n \div 64, 4 * (n % 64)>> ELSE <<4 * f.type + n>>) \o f.data
EncodedXid(fields) == FlattenSeq([i \in DOMAIN fields |-> encode_xid_field(fields[i])])
gprs_llc_compile_xid(fields) == EncodedXid(Reverse(fields))

decode_xid_field(octets) ==
  LET xl == octets[1] >= 128
      n == IF xl THEN 64 * (octets[1] % 4) + octets[2] \div 4 ELSE octets[1] % 4
      head == IF xl THEN 2 ELSE 1
  IN  [used |-> head + n,
       field |-> [type |-> (octets[1] \div 4) % 32, data |-> SubSeq(octets, head + 1, head + n)]]
\* A field takes an octet at least, so there are no more fields than octets.
XidFieldTaken(st, d) ==
  [fields |-> <<d.field>> \o st.fields, rest |-> SubSeq(st.rest, d.used + 1, Len(st.rest))]
gprs_llc_parse_xid(octets) ==
  LET Pass(st, o) == IF st.rest = <<>> THEN st ELSE XidFieldTaken(st, decode_xid_field(st.rest))
  IN  FoldLeft(Pass, [fields |-> <<>>, rest |-> octets], octets).fields
=============================================================================
