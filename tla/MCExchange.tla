----------------------------- MODULE MCExchange -----------------------------
(* The parts of the server that bring texts in, send them out and make them   *)
(* found.  They do not touch each other's rows, so that a behaviour is of one *)
(* of them, its scene, and the others have no rows.  The states of the scenes *)
(* add up instead of multiplying; each property is checked in its own scene.  *)
EXTENDS SearchIndex, MigrationSession, GitSync, InboundCapture, NotificationDelivery, TLC

VARIABLE scene

Goroutines == Permutations(GitWorkers)

exchangeVars == <<scene, ragVars, migVars, gitVars, inVars, noteVars>>

\* A mail that cannot be read, two with one Message-ID and another one.
Arrivals == {<<0, 1>>, <<1, 1>>, <<1, 2>>, <<2, 1>>}

\* The variables of a part that is not on the scene.
Off == <<>>
NoIndex ==
  /\ rag = Off /\ generations = Off /\ serving = Off /\ grants = Off /\ ragJobs = Off
  /\ indexer = Off /\ proof = Off /\ sent = Off /\ consents = Off
NoMigration ==
  /\ migSessions = Off /\ migItems = Off /\ migBindings = Off /\ migDocuments = Off /\ migFiles = Off
  /\ migObjects = Off /\ migStore = Off /\ migWorld = Off /\ migWorkers = Off
NoGit ==
  /\ gitConsent = Off /\ gitTexts = Off /\ gitMaps = Off /\ gitRemote = Off
  /\ gitRuns = Off /\ gitWorkers = Off /\ gitInspected = Off /\ gitTroubled = Off
NoInbound ==
  /\ inFolder = Off /\ inChannel = Off /\ inRows = Off
  /\ inPoll = Off /\ inWorkers = Off /\ inTroubled = Off
NoNotes ==
  /\ noteInbox = Off /\ noteWishes = Off /\ noteRows = Off /\ noteSenders = Off /\ noteTroubled = Off

ExchangeInit ==
  /\ scene \in {"index", "migration", "git", "inbound", "notes"}
  /\ IF scene = "index" THEN RagInit ELSE NoIndex
  /\ IF scene = "migration" THEN MigInit ELSE NoMigration
  /\ IF scene = "git" THEN GitInit ELSE NoGit
  /\ IF scene = "inbound" THEN InInit ELSE NoInbound
  /\ IF scene = "notes" THEN NoteInit ELSE NoNotes

ExchangeNext ==
  /\ UNCHANGED scene
  /\ \/ scene = "index" /\ RagNext /\ UNCHANGED <<migVars, gitVars, inVars, noteVars>>
     \/ scene = "migration" /\ MigNext /\ UNCHANGED <<ragVars, gitVars, inVars, noteVars>>
     \/ scene = "git" /\ GitNext /\ UNCHANGED <<ragVars, migVars, inVars, noteVars>>
     \/ scene = "inbound" /\ InNext /\ UNCHANGED <<ragVars, migVars, gitVars, noteVars>>
     \/ scene = "notes" /\ NoteNext /\ UNCHANGED <<ragVars, migVars, gitVars, inVars>>

ExchangeSpec == ExchangeInit /\ [][ExchangeNext]_exchangeVars

\* Every row has the shape its table and its handlers give it.
ExchangeTypeOK ==
  /\ scene = "index" => RagTypeOK
  /\ scene = "migration" => MigTypeOK
  /\ scene = "git" => GitTypeOK
  /\ scene = "inbound" => InTypeOK
  /\ scene = "notes" => NoteTypeOK

\* What each module says of its part.
IndexHolds     == scene = "index" => IndexFitsText
SwitchHolds    == [][scene = "index" => SwitchKeepsSearch]_ragVars
MigrationHolds == [][scene = "migration" => MigrationIsWhole]_migVars
GitHolds       == [][scene = "git" => GitIsTrue]_gitVars
CaptureHolds   == [][scene = "inbound" => CaptureIsWhole]_inVars
NotesHold      == [][scene = "notes" => NotesAreTold]_noteVars
=============================================================================
