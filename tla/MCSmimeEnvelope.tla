--------------------------- MODULE MCSmimeEnvelope ---------------------------
(***************************************************************************)
(* SmimeEnvelope for TLC: every list of at most MaxCerts certificates, and *)
(* messages of other software that deviate from the usual in one field,    *)
(* with at most MaxEntries entries.                                        *)
(***************************************************************************)
EXTENDS SmimeEnvelope

CONSTANTS MaxCerts, MaxEntries

Cert2(rid, kind, usable) == [rid |-> rid, key |-> kind, usable |-> usable]

SomeCerts ==
  {Cert2("alice", "RSA", TRUE), Cert2("bob", "P-256", TRUE), Cert2("carol", "P-384", TRUE),
   Cert2("bob", "OAEP", TRUE), Cert2("carol", "no-curve", TRUE),
   Cert2("alice", "RSA", FALSE), Cert2("bob", "P-256", FALSE)}

SomeCertLists == UNION {[1 .. n -> SomeCerts] : n \in 0 .. MaxCerts}

Key(ids, rsa, curve) == [ids |-> ids, rsa |-> rsa, curve |-> curve]

\* Single keys, one that leaves agree_ecdh at its default, and key rings.
SomeKeys ==
  {Key({"alice"}, {"pkcs1"}, Nothing), Key({"bob"}, {}, "P-256"), Key({"bob"}, {}, Nothing),
   Key({"carol"}, {}, "P-384"), Key({"dave"}, {"pkcs1", "oaep"}, "P-256"),
   Key({"alice", "bob"}, {"pkcs1", "oaep"}, "P-256"), Key({"alice", "bob"}, {"pkcs1"}, Nothing)}

TheCek == [id |-> "theirs", len |-> 16]

Wrap(to, by) == [to |-> to, by |-> by, cek |-> TheCek]

Transport(rid, alg) == [type |-> "ktri", rid |-> rid, alg |-> alg, enc |-> Wrap(rid, alg)]

Agreement ==
  [type |-> "kari", originator |-> "ec", curve |-> "P-256", kdf |-> "sha256kdf",
   wrap |-> "aes128wrap",
   reks |-> <<[rid |-> "bob", enc |-> Wrap("bob", <<"sha256kdf", "aes128wrap">>)]>>]

Transports ==
  {Transport(rid, alg) : rid \in {"alice", "bob"}, alg \in {"pkcs1", "oaep", "unknown"}}
    \cup {[Transport("alice", "pkcs1") EXCEPT !.enc.to = "nobody"],
          [Transport("alice", "pkcs1") EXCEPT !.enc.cek.len = 32]}

Agreements ==
  {Agreement}
    \cup {[Agreement EXCEPT !.originator = o] : o \in {"static", "rsa"}}
    \cup {[Agreement EXCEPT !.curve = c] : c \in {"P-384", Nothing}}
    \cup {[Agreement EXCEPT !.kdf = f] : f \in {"sha384kdf", "unknown"}}
    \cup {[Agreement EXCEPT !.wrap = w] : w \in {"aes256wrap", "unknown", "undecodable", Nothing}}
    \cup {[Agreement EXCEPT !.reks = <<[rid |-> "carol", enc |-> Wrap("carol", "pkcs1")]>> \o @],
          [Agreement EXCEPT !.reks[1].enc.to = "nobody"]}

Entries == Transports \cup Agreements \cup {[type |-> "other"]}

FewEntries ==
  {Transport("alice", "pkcs1"), Transport("bob", "unknown"), Agreement,
   [Agreement EXCEPT !.originator = "static"], [type |-> "other"]}

Gcm == [GcmContent(16, "aes128-gcm") EXCEPT !.cek = TheCek]

Cbc ==
  [type |-> "enveloped", oid |-> "aes128-cbc", iv |-> "present", ct |-> "present",
   cek |-> TheCek, intact |-> TRUE]

Contents ==
  {Gcm, Cbc, [type |-> "unknown"], [type |-> "undecodable"]}
    \cup {[Gcm EXCEPT !.oid = o] : o \in {"aes256-gcm", "aes128-cbc"}}
    \cup {[Gcm EXCEPT !.params = p] : p \in {"missing", "undecodable"}}
    \cup {[Gcm EXCEPT !.ct = t] : t \in {"missing", "too large"}}
    \cup {[Gcm EXCEPT !.nonce = 8], [Gcm EXCEPT !.icv = 12], [Gcm EXCEPT !.mac = 12],
          [Gcm EXCEPT !.intact = FALSE]}
    \cup {[Cbc EXCEPT !.oid = o] : o \in {"aes256-cbc", "aes128-gcm"}}
    \cup {[Cbc EXCEPT !.iv = v] : v \in {"missing", "undecodable", "wrong length"}}
    \cup {[Cbc EXCEPT !.ct = t] : t \in {"missing", "too large"}}
    \cup {[Cbc EXCEPT !.intact = FALSE]}

Foreign(contents, entries, n) ==
  {[content |-> c, entries |-> e] : c \in contents, e \in [1 .. n -> entries]}

SomeMessages ==
  {NoMessage}
    \cup Foreign(Contents, Entries, 1)
    \cup Foreign({Gcm, Cbc}, Entries, 2)
    \cup UNION {Foreign({Gcm}, FewEntries, n) : n \in {0} \cup 3 .. MaxEntries}
=============================================================================
