---------------------------- MODULE MCQuicPublish ----------------------------
(***************************************************************************)
(* Instance of QuicPublish for TLC: the required entries, then a CATALOG    *)
(* that lost one of them and got another.                                   *)
(***************************************************************************)
EXTENDS QuicPublish

MCCatalogs == <<<<Chrome, QuicGo, QuicGoDatagram>>, <<Chrome, QuicGoDatagram, Yandex>>>>
MCReadOrder == <<"chrome", "quic-go-datagram", "quic-go", "yandex">>
MCShortOrder == <<"chrome", "quic-go", "quic-go-datagram", "yandex">>

Seen(doc) == [id |-> doc.refs[1], tp |-> doc.identity.tp, markers |-> doc.identity.markers,
              scid |-> doc.identity.scid, datagrams |-> doc.identity.datagrams]
MCLab == {Seen(Chrome), Seen(QuicGo), Seen(QuicGoDatagram)}

ASSUME OwnAliases == AliasesAreTheirOwn
=============================================================================
