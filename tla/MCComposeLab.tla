----------------------------- MODULE MCComposeLab -----------------------------
(***************************************************************************)
(* Instance of ComposeLab for TLC: every compose target of targets.yaml,    *)
(* two of the curl-impersonate and emit-builtin ones, and a wishlist row.   *)
(***************************************************************************)
EXTENDS ComposeLab

Row(id, kind, service, emit, status) ==
  [id |-> id, kind |-> kind, service |-> service, emit |-> emit, status |-> status]
Client(id) == Row(id, "compose", id, None, "active")

MCRows ==
  <<Client("chromium-stable"), Client("firefox-release"),
    Row("curl-imp-chrome146", "curl-impersonate", None, None, "active"),
    Row("builtin-chrome", "emit-builtin", None, "chrome", "active"),
    Row("builtin-chrome-120", "emit-builtin", None, "chrome_120", "active"),
    Client("openssl3"), Client("curl-openssl"), Client("go-nethttp"), Client("python-requests"),
    Client("python-httpx"), Client("node-undici"), Client("okhttp4"), Client("okhttp5"),
    Client("grpc-go"), Client("rust-native-tls"), Client("python-aiohttp"), Client("chrome-linux"),
    Row("opera", "wishlist", None, None, "wishlist"), Client("electron-sample"), Client("git-https"),
    Client("java-jdk"), Client("rust-rustls"), Client("gnutls-cli"), Client("php-curl"), Client("dotnet-http")>>

\* A browser becomes a target, with its service named or not; labctl archives a
\* profile; a row has no status, or no service of that name.
MCEdits ==
  {Client("brave"), [Client("brave") EXCEPT !.service = None], [Client("opera") EXCEPT !.status = None],
   Client("opera"), Row("chrome-linux-124", "wishlist", None, None, "active")}
\* labctl capture -id, and four of -group browsers.
MCFilters ==
  {RowsOf(id) : id \in IDs}
    \cup {{r \in AllRows : r.id \in {"chromium-stable", "firefox-release", "chrome-linux", "brave"}}}
MCEmits == [e \in {"chrome", "chrome_120"} |-> IF e = "chrome" THEN "builtin-chrome" ELSE "builtin-chrome-120"]

\* Every service of the lab is named like its target.
ASSUME LabOwnsServices == TargetsOwnServices
=============================================================================
