---------------------------- MODULE MCMmRegistry ----------------------------
(* Instances of MmRegistry for TLC.                                        *)
EXTENDS MmRegistry, TLC

Gb(type, t, ra, old_ra, mi, flaw) ==
  [ran |-> "Gb", tlli |-> t, ra |-> ra, old_ra |-> old_ra, type |-> type, mi |-> mi, flaw |-> flaw]
Iu(type, u, ra, old_ra, mi, flaw) ==
  [ran |-> "Iu", ue |-> u, ra |-> ra, old_ra |-> old_ra, type |-> type, mi |-> mi, flaw |-> flaw]

Mis == Imsis \cup Ptmsis
Local == {gprs_tmsi2tlli(p, "local") : p \in Ptmsis}
Foreign == {gprs_tmsi2tlli(p, "foreign") : p \in Ptmsis}
Random == {t \in Tllis : t.type = "random"}

\* An MS attaches with its P-TMSI under the foreign TLLI or with its IMSI under
\* a random one, which another MS may have chosen too; it changes to the local
\* TLLI when it is accepted, and updates its RA under the foreign one.
GbMessages ==
  UNION {   {Gb("att_req", t, ra, ra, t.id, "none") : t \in Foreign \cup Local}
       \cup {Gb("att_req", t, ra, ra, i, flaw) : t \in Random, i \in Imsis, flaw \in {"none", "bad", "nocipher"}}
       \cup {Gb("ra_upd_req", t, ra, old, None, "none") : t \in Foreign, old \in Ras}
       \cup {Gb("ra_upd_req", t, ra, ra, None, "none") : t \in Local}
       \cup {Gb("id_resp", t, ra, ra, i, "none") : t \in Foreign \cup Random, i \in Imsis}
       \cup {Gb(type, t, ra, ra, None, "none") : t \in Local,
               type \in {"att_compl", "ra_upd_compl", "ptmsi_reall_compl", "det_req", "det_req_off"}} :
     ra \in Ras}
IuMessages ==
  UNION {   {Iu("att_req", u, ra, ra, mi, "none") : mi \in Mis}
       \cup {Iu("service_req", u, ra, ra, mi, "none") : mi \in Ptmsis}
       \cup {Iu("ra_upd_req", u, ra, old, mi, "none") : old \in Ras, mi \in Ptmsis}
       \cup {Iu("id_resp", u, ra, ra, i, "none") : i \in Imsis}
       \cup {Iu(type, u, ra, ra, None, "none") : type \in {"att_compl", "ra_upd_compl", "det_req"}} :
     u \in Ues, ra \in Ras}
AllMessages == GbMessages \cup IuMessages

Symmetry == Permutations(Imsis) \cup Permutations(Ptmsis) \cup Permutations(Ras) \cup Permutations(Ues)
=============================================================================
