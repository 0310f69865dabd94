----------------------------- MODULE QuicCatalog -----------------------------
(***************************************************************************)
(* The curated catalog of QUIC personas, CATALOG in                        *)
(* quic/scripts/sync_utls_catalog.py, entry by entry: what the matcher, the *)
(* emitter, the experiments and the export read of an entry.  Prose, the    *)
(* order of transport parameters (matching takes the set), the structured   *)
(* skeleton and ALPN are left out.                                          *)
(***************************************************************************)
EXTENDS Integers, Sequences

None == -1            \* JSON null, where a length or a count may stand

MarkerIDs == {"0x11", "0x3128", "0x20", "0x2ab2"}

\* A random slot: does its value belong to the identity, may auth overlay it?
Slot(id, stable, overlay) == [id |-> id, stable |-> stable, overlay |-> overlay]

RANDOM_CHROME ==
  {Slot("tp_grease_id", TRUE, FALSE), Slot("tp_grease_value", FALSE, TRUE),
   Slot("tp_order", TRUE, FALSE), Slot("tp_0x11_version_grease", FALSE, FALSE),
   Slot("ch_ech_grease", FALSE, FALSE), Slot("ch_ext_shuffle", FALSE, FALSE),
   Slot("initial_dcid", FALSE, FALSE), Slot("initial_pn", FALSE, FALSE)}

RANDOM_QUICGO ==
  {Slot("tp_grease_id", TRUE, FALSE), Slot("tp_grease_value", FALSE, FALSE),
   Slot("initial_dcid", FALSE, FALSE), Slot("initial_scid", FALSE, FALSE),
   Slot("initial_pn", FALSE, FALSE), Slot("ch_keyshare_secrets", FALSE, FALSE),
   Slot("ch_ext_order", TRUE, FALSE), Slot("initial_frame_layout", TRUE, FALSE)}

AUTH_CHROME == [capable |-> TRUE, channel |-> "tp_grease_value", demuxFingerprint |-> FALSE]
AUTH_NONE == [capable |-> FALSE, channel |-> "none", demuxFingerprint |-> FALSE]
AUTH_LATENT_GREASE == [capable |-> FALSE, channel |-> "tp_grease_value", demuxFingerprint |-> FALSE]

\* identity: markers are the ids whose has_<id> is true, the others being false.
Identity(tp, markers, scid, datagrams) ==
  [tp |-> tp, markers |-> markers, scid |-> scid, datagrams |-> datagrams]

\* emit: its kind and the engine's flags, if there are any.
NoEngine == [parrot |-> FALSE, datagrams |-> FALSE, zeroSCID |-> FALSE, given |-> FALSE]
Engine(parrot, datagrams, zeroSCID) ==
  [parrot |-> parrot, datagrams |-> datagrams, zeroSCID |-> zeroSCID, given |-> TRUE]
Emit(kind, engine) == [kind |-> kind, engine |-> engine]

\* A catalog entry; the order of observation_refs matters, that of aliases does not.
Profile(short, family, aliases, status, identity, emit, slots, auth, refs) ==
  [short |-> short, family |-> family, aliases |-> aliases, status |-> status,
   identity |-> identity, emit |-> emit, slots |-> slots, auth |-> auth, refs |-> refs]

\* Transport parameters all entries share.
CommonTP == {"0x1", "0x4", "0x5", "0x6", "0x7", "0x8", "0x9", "0xf"}

Chrome == Profile("chrome", "chrome", {"chromeparrot", "hy2-default", "tuic-default"}, "emit_ready",
  Identity(CommonTP \cup {"0x3", "0x11", "GREASE", "0x20", "0x3128"}, {"0x11", "0x3128", "0x20"}, 0, 2),
  Emit("sagernet_chrome_parrot", Engine(TRUE, TRUE, TRUE)), RANDOM_CHROME, AUTH_CHROME,
  <<"chromeparrot", "chromeparrot-b", "chromiumfresh", "winchrome", "winedge", "hy2parrot", "tuicparrot">>)

QuicGo == Profile("quic-go", "quic-go", {"quicgo", "plain"}, "emit_ready",
  Identity(CommonTP \cup {"0x3", "0xb", "0xe", "GREASE"}, {}, None, 2),
  Emit("sagernet_plain", Engine(FALSE, FALSE, FALSE)), RANDOM_QUICGO, AUTH_LATENT_GREASE,
  <<"quicgo">>)

\* Mutated form: copied from quic-go, DATAGRAM is not enabled.
QuicGoDatagramCopied == Profile("quic-go-datagram", "quic-go", {"quicgodg", "hy2plain", "tuicplain"},
  "emit_ready", Identity(CommonTP \cup {"0x3", "0xb", "0xe", "GREASE", "0x20"}, {"0x20"}, None, 2),
  Emit("sagernet_plain", Engine(FALSE, FALSE, FALSE)), RANDOM_QUICGO, AUTH_LATENT_GREASE,
  <<"quicgodg", "hy2plain", "tuicplain">>)

QuicGoDatagram == Profile("quic-go-datagram", "quic-go", {"quicgodg", "hy2plain", "tuicplain"},
  "emit_ready", Identity(CommonTP \cup {"0x3", "0xb", "0xe", "GREASE", "0x20"}, {"0x20"}, None, 2),
  Emit("sagernet_plain", Engine(FALSE, TRUE, FALSE)), RANDOM_QUICGO, AUTH_LATENT_GREASE,
  <<"quicgodg", "hy2plain", "tuicplain">>)

Yandex == Profile("yandex", "yandex", {"winyandex"}, "observation_only",
  Identity(CommonTP \cup {"0x3", "0x11", "GREASE", "0x20"}, {"0x11", "0x20"}, 0, 2),
  Emit("match_only", Engine(FALSE, TRUE, TRUE)),
  {Slot("tp_grease_value", FALSE, FALSE), Slot("initial_dcid", FALSE, FALSE)}, AUTH_LATENT_GREASE,
  <<"yandex", "winyandex">>)

Firefox == Profile("firefox", "firefox", {}, "observation_only",
  Identity(CommonTP \cup {"0xb", "0xe", "0x11", "GREASE", "0x20"}, {"0x11", "0x20"}, None, 2),
  Emit("match_only", NoEngine),
  {Slot("tp_grease_value", FALSE, FALSE), Slot("initial_scid", FALSE, FALSE)}, AUTH_NONE,
  <<"firefox">>)

UquicSlots == {Slot("tp_grease_value", FALSE, FALSE)}

UquicChrome146 == Profile("uquic-chrome-146", "uquic-chrome", {"uquic146"}, "experimental",
  Identity(CommonTP \cup {"0x3", "GREASE", "0x20", "0x3127", "0x3128", "0xff73db"}, {"0x3128", "0x20"}, 0, 2),
  Emit("uquic_preset", NoEngine), UquicSlots, AUTH_NONE,
  <<"uquic146", "uquic146-b">>)

UquicChrome115 == Profile("uquic-chrome-115", "uquic-chrome", {"uquic115"}, "experimental",
  Identity(CommonTP \cup {"0x3", "GREASE", "0x20", "0x3128", "0x4752", "0xff73db"}, {"0x3128", "0x20"}, 0, 1),
  Emit("uquic_preset", NoEngine), UquicSlots, AUTH_NONE,
  <<"uquic115">>)

UquicFirefox116 == Profile("uquic-firefox-116", "uquic-firefox",
  {"uquicff", "uquicffa", "uquicffb", "uquicffc"}, "experimental",
  Identity(CommonTP \cup {"0xb", "0xc", "0xe", "GREASE", "0x20", "0x2ab2", "0xff73db"}, {"0x20", "0x2ab2"}, 3, 1),
  Emit("uquic_preset", NoEngine), UquicSlots, AUTH_NONE,
  <<"uquicff", "uquicffa", "uquicffb", "uquicffc">>)

AioQuic == Profile("aioquic", "aioquic", {}, "observation_only",
  Identity(CommonTP \cup {"0xa", "0xb", "0xe", "0x11"}, {"0x11"}, 8, 1),
  Emit("match_only", NoEngine), {Slot("initial_scid", FALSE, FALSE)}, AUTH_NONE,
  <<"aioquic">>)

CurlQuiche == Profile("curl-quiche", "quiche", {"curlquiche", "quiche"}, "observation_only",
  Identity(CommonTP \cup {"0x3", "0xa", "0xb", "0xc"}, {}, 20, 1),
  Emit("match_only", NoEngine), {Slot("initial_scid", FALSE, FALSE)}, AUTH_NONE,
  <<"curlquiche">>)

ChromiumStale == Profile("chromium-stale", "chromium", {"chromium"}, "observation_only",
  Identity(CommonTP \cup {"0x3", "GREASE", "0x20", "0x4752", "0xff73db"}, {"0x20"}, None, 2),
  Emit("match_only", NoEngine), UquicSlots, AUTH_LATENT_GREASE,
  <<"chromium">>)

\* In the order of the source; and in the order of the file names, in which
\* iter_curated_profiles yields them ("-" sorts before ".").
CATALOG == <<Chrome, QuicGo, QuicGoDatagram, Yandex, Firefox, UquicChrome146, UquicChrome115,
             UquicFirefox116, AioQuic, CurlQuiche, ChromiumStale>>
SortedCatalog == <<AioQuic, Chrome, ChromiumStale, CurlQuiche, Firefox, QuicGoDatagram, QuicGo,
                   UquicChrome115, UquicChrome146, UquicFirefox116, Yandex>>
=============================================================================
