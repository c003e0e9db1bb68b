------------------------------ MODULE MCNetwork ------------------------------
(* The REST client and the downloader share no state and are checked side by  *)
(* side: the initial state picks one, and the other stays as it is.           *)
EXTENDS RestRequester

CONSTANTS a, b,
          Addresses, Errors, MaxDownloads  \* of Downloader

\* No reply is allocated at nullptr, see Nowhere.
ASSUME DownloadsAssumption == MaxDownloads \in Nat /\ "nowhere" \notin Addresses

VARIABLES part,                                             \* the component picked
          open, lastId, replies, entries, calling, told     \* Downloader

OneClient  == {a}
TwoClients == {a, b}

TwoAddresses == {"x", "y"}
TwoErrors    == {"HostNotFoundError", "TimeoutError"}

Downloads == INSTANCE Downloader

downloadVars == <<open, lastId, replies, entries, calling, told>>
partVars     == <<part, vars, downloadVars>>

PartInit ==
  /\ part \in {"rest", "downloads"}
  /\ Init /\ Downloads!Init
  /\ part = "downloads" => client = a

RestNext     == part = "rest" /\ Next /\ UNCHANGED <<part, downloadVars>>
DownloadNext == part = "downloads" /\ Downloads!Next /\ UNCHANGED <<part, vars>>

PartNext == RestNext \/ DownloadNext

PartSpec == PartInit /\ [][PartNext]_partVars /\ Fairness /\ Downloads!Fairness

RestInit == part = "rest" /\ Init /\ Downloads!Init

RestSpec == RestInit /\ [][PartNext]_partVars

\* The variables of both components have their types: the calls in progress are
\* nested, and exactly the replies that exist have entries.
PartTypeOK == TypeOK /\ Downloads!TypeOK

\* A download is reported once, to the one who asked for it, see Downloader.
CalledBackOnce == Downloads!CalledBackOnce

\* Every request method returns, and every download is reported, in the end.
EveryCallAnswered == EveryCallReturns /\ Downloads!EveryDownloadAnswered
=============================================================================
