---------------------------- MODULE WorkspaceFiles ----------------------------
(***************************************************************************)
(* The Files tab of a pane (web/src/components/WorkspaceFilesView.tsx): a  *)
(* tree of folders read one by one, a search, one open file, and the       *)
(* browser's object URLs for an image and for a download.                  *)
(*                                                                         *)
(* Every effect and every click has its own request; an answer is taken if *)
(* the effect that asked still stands, or if no refresh came in between.   *)
(* Listings and contents are left out: what matters of an answer is which  *)
(* request it belongs to.  The server answers or fails at any time.        *)
(***************************************************************************)
EXTENDS Naturals, FiniteSets, Absence

CONSTANTS
    Folders, Parent,    \* the folders of the workspace; Parent[d] or None
    Files, Images,      \* its files, and those isImageFile holds of
    Queries,            \* what is typed into the filter
    MaxActs,            \* bound: what the user does
    MaxLost             \* bound: requests that fail

\* A request of loadDirectory, one of the search, and a file with its URL.
Listing == [dir : Folders, at : Nat]
SearchRequest == [text : Queries, sent : BOOLEAN]
ObjectURL == [path : Files, url : Nat]

ASSUME FilesAssumption ==
    /\ Images \subseteq Files /\ None \notin Files \cup Folders \cup Queries
    /\ None \notin Nat \cup SearchRequest \cup ObjectURL
    /\ Parent \in [Folders -> Folders \cup {None}]
    /\ MaxActs \in Nat /\ MaxLost \in Nat

VARIABLES
    shown,          \* the property active: the tab is visible
    root, rootLoading, rootError, rootAsked,
    directories,    \* the refreshVersion a folder's listing was asked under
    expanded, loadingDirectories, directoryErrors,
    asked,          \* requests of loadDirectory
    refreshVersion,
    query, searchAsked, searchResult, searching, searchError,
    selectedPath, selectedFile, fileAsked, fileLoading, fileError,
    previewAsked, imagePreview, imagePreviewLoading, imagePreviewError,
    urls,           \* object URLs that are not revoked, numbered
    download,       \* the path being downloaded, and its URL
    downloadError,
    acts, lost

rootVars == <<root, rootLoading, rootError, rootAsked>>
treeVars == <<directories, expanded, loadingDirectories, directoryErrors,
              asked, refreshVersion>>
searchVars == <<query, searchAsked, searchResult, searching, searchError>>
fileVars == <<selectedPath, fileAsked, fileLoading, fileError>>
previewVars == <<selectedFile, previewAsked, imagePreview,
                 imagePreviewLoading, imagePreviewError>>
downloadVars == <<download, downloadError>>
filesVars == <<shown, rootVars, treeVars, searchVars, fileVars, previewVars,
               urls, downloadVars, acts, lost>>

Acts == acts < MaxActs /\ acts' = acts + 1
Loses == lost < MaxLost /\ lost' = lost + 1

-----------------------------------------------------------------------------
(* The effects of a render, for the part of the state a step changed.  Each   *)
(* first forgets its old request.                                             *)

RootEffect(on) ==
    /\ rootAsked' = on
    /\ rootLoading' = (on \/ rootLoading)
    /\ UNCHANGED <<root, rootError>>

\* The search starts after a delay; a request that did not start yet and one
\* that did are both dropped by a change.
SearchEffect(on, text) ==
    /\ query' = text
    /\ IF ~on
       THEN searchAsked' = None /\ UNCHANGED <<searchResult, searching, searchError>>
       ELSE IF text = None
       THEN /\ searchAsked' = None /\ searchResult' = None
            /\ searching' = FALSE /\ searchError' = FALSE
       ELSE /\ searchAsked' = [text |-> text, sent |-> FALSE]
            /\ searching' = TRUE
            /\ UNCHANGED <<searchResult, searchError>>

FileEffect(on, path) ==
    /\ selectedPath' = path
    /\ IF on /\ path # None
       THEN fileAsked' = path /\ fileLoading' = TRUE /\ fileError' = FALSE
       ELSE fileAsked' = None /\ UNCHANGED <<fileLoading, fileError>>

\* The effect on selectedFile: its cleanup revokes the URL of the old preview.
Revoked == IF imagePreview = None THEN {} ELSE {imagePreview.url}
PreviewEffect(on, file) ==
    LET asks == on /\ file # None /\ file \in Images
    IN  /\ selectedFile' = file
        /\ previewAsked' = IF asks THEN file ELSE None
        /\ imagePreview' = None /\ imagePreviewError' = FALSE
        /\ imagePreviewLoading' = asks
        /\ urls' = urls \ Revoked

-----------------------------------------------------------------------------
(* The user. *)

ToggleTab ==
    /\ Acts /\ shown' = ~shown
    /\ RootEffect(shown') /\ SearchEffect(shown', query)
    /\ FileEffect(shown', selectedPath) /\ PreviewEffect(shown', selectedFile)
    /\ UNCHANGED <<treeVars, downloadVars, lost>>

\* refreshWorkspace keeps the root's listing and the open file until the new
\* ones arrive.
Refresh ==
    /\ Acts /\ shown
    /\ refreshVersion' = refreshVersion + 1
    /\ directories' = [d \in Folders |-> None]
    /\ expanded' = {} /\ loadingDirectories' = {} /\ directoryErrors' = {}
    /\ RootEffect(TRUE) /\ SearchEffect(TRUE, query)
    /\ FileEffect(TRUE, selectedPath)
    /\ UNCHANGED <<shown, asked, previewVars, urls, downloadVars, lost>>

Type(text) ==
    /\ Acts /\ shown /\ text # query /\ SearchEffect(TRUE, text)
    /\ UNCHANGED <<shown, rootVars, treeVars, fileVars, previewVars, urls,
                   downloadVars, lost>>

\* The rows of the tree, or of the search, open a file.
Open(path) ==
    /\ Acts /\ shown /\ path # selectedPath
    /\ (query = None /\ root) \/ searchResult # None
    /\ FileEffect(TRUE, path)
    /\ IF selectedFile = None THEN UNCHANGED <<previewVars, urls>>
       ELSE PreviewEffect(TRUE, None)
    /\ UNCHANGED <<shown, rootVars, treeVars, searchVars, downloadVars, lost>>

\* directoryEntries has a folder once its parent was listed.
Listed(d) == IF Parent[d] = None THEN root ELSE directories[Parent[d]] # None

LoadDirectory(d) ==
    /\ directoryErrors' = directoryErrors \ {d}
    /\ loadingDirectories' = loadingDirectories \cup {d}
    /\ asked' = asked \cup {[dir |-> d, at |-> refreshVersion]}
    /\ UNCHANGED <<directories, refreshVersion>>

ClickFolder(d) ==
    /\ Acts /\ shown /\ query = None /\ Listed(d)
    /\ expanded' = IF d \in expanded THEN expanded \ {d} ELSE expanded \cup {d}
    /\ IF directories[d] = None /\ d \notin loadingDirectories
       THEN LoadDirectory(d)
       ELSE UNCHANGED <<directories, loadingDirectories, directoryErrors,
                        asked, refreshVersion>>
    /\ UNCHANGED <<shown, rootVars, searchVars, fileVars, previewVars, urls,
                   downloadVars, lost>>

\* renderWorkspaceDirectoryFeedback, for an expanded folder; a failed one
\* offers Retry.
Feedback(d) ==
    IF d \in directoryErrors THEN "retry"
    ELSE IF d \in loadingDirectories THEN "loading"
    ELSE IF directories[d] # None THEN "entries" ELSE "nothing"

RetryFolder(d) ==
    /\ Acts /\ shown /\ query = None /\ d \in expanded /\ Listed(d)
    /\ Feedback(d) = "retry" /\ LoadDirectory(d)
    /\ UNCHANGED <<shown, expanded, rootVars, searchVars, fileVars,
                   previewVars, urls, downloadVars, lost>>

\* A download uses the preview's URL when it shows the file; else it asks for
\* the content and has a URL of its own until a timer revokes it.
Download ==
    /\ Acts /\ shown /\ selectedFile # None /\ ~fileLoading /\ download = None
    /\ downloadError' = FALSE
    /\ IF imagePreview # None /\ imagePreview.path = selectedFile
       THEN UNCHANGED download
       ELSE download' = [path |-> selectedFile, url |-> 0]
    /\ UNCHANGED <<shown, rootVars, treeVars, searchVars, fileVars,
                   previewVars, urls, lost>>

-----------------------------------------------------------------------------
(* The answers. *)

FreshURL == CHOOSE n \in 1..(Cardinality(urls) + 1) : n \notin urls

RootAnswered(ok) ==
    /\ rootAsked /\ rootAsked' = FALSE /\ rootLoading' = FALSE
    /\ IF ok THEN root' = TRUE /\ rootError' = FALSE /\ UNCHANGED lost
             ELSE Loses /\ rootError' = TRUE /\ UNCHANGED root
    /\ UNCHANGED <<shown, treeVars, searchVars, fileVars, previewVars, urls,
                   downloadVars, acts>>

FolderAnswered(r, ok) ==
    /\ asked' = asked \ {r}
    /\ IF r.at # refreshVersion
       THEN UNCHANGED <<directories, loadingDirectories, directoryErrors>>
       ELSE /\ loadingDirectories' = loadingDirectories \ {r.dir}
            /\ IF ok
               THEN /\ directories' = [directories EXCEPT ![r.dir] = r.at]
                    /\ UNCHANGED directoryErrors
               ELSE /\ directoryErrors' = directoryErrors \cup {r.dir}
                    /\ UNCHANGED directories
    /\ IF ok THEN UNCHANGED lost ELSE Loses
    /\ UNCHANGED <<shown, rootVars, expanded, refreshVersion, searchVars,
                   fileVars, previewVars, urls, downloadVars, acts>>

SearchDelayOver ==
    /\ searchAsked # None /\ ~searchAsked.sent
    /\ searchAsked' = [searchAsked EXCEPT !.sent = TRUE]
    /\ UNCHANGED <<shown, rootVars, treeVars, query, searchResult, searching,
                   searchError, fileVars, previewVars, urls, downloadVars,
                   acts, lost>>

SearchAnswered(ok) ==
    /\ searchAsked # None /\ searchAsked.sent
    /\ searchResult' = IF ok THEN searchAsked.text ELSE None
    /\ searchError' = ~ok /\ searching' = FALSE /\ searchAsked' = None
    /\ IF ok THEN UNCHANGED lost ELSE Loses
    /\ UNCHANGED <<shown, rootVars, treeVars, query, fileVars, previewVars,
                   urls, downloadVars, acts>>

FileAnswered(ok) ==
    /\ fileAsked # None /\ fileAsked' = None
    /\ fileLoading' = FALSE /\ fileError' = (fileError \/ ~ok)
    /\ IF ok THEN UNCHANGED lost ELSE Loses
    /\ IF ok \/ selectedFile # None
       THEN PreviewEffect(shown, IF ok THEN fileAsked ELSE None)
       ELSE UNCHANGED <<previewVars, urls>>
    /\ UNCHANGED <<shown, rootVars, treeVars, searchVars, selectedPath,
                   downloadVars, acts>>

PreviewAnswered(ok) ==
    /\ previewAsked # None /\ previewAsked' = None
    /\ imagePreviewLoading' = FALSE
    /\ IF ok THEN /\ imagePreview' = [path |-> previewAsked, url |-> FreshURL]
                  /\ urls' = urls \cup {FreshURL}
                  /\ UNCHANGED <<imagePreviewError, lost>>
             ELSE Loses /\ imagePreviewError' = TRUE
                  /\ UNCHANGED <<imagePreview, urls>>
    /\ UNCHANGED <<shown, rootVars, treeVars, searchVars, fileVars,
                   selectedFile, downloadVars, acts>>

DownloadAnswered(ok) ==
    /\ download # None /\ download.url = 0
    /\ IF ok THEN /\ download' = [download EXCEPT !.url = FreshURL]
                  /\ urls' = urls \cup {FreshURL}
                  /\ UNCHANGED <<downloadError, lost>>
             ELSE Loses /\ download' = None /\ downloadError' = TRUE
                  /\ UNCHANGED urls
    /\ UNCHANGED <<shown, rootVars, treeVars, searchVars, fileVars,
                   previewVars, acts>>

RevokeTimer ==
    /\ download # None /\ download.url # 0
    /\ urls' = urls \ {download.url} /\ download' = None
    /\ UNCHANGED <<shown, rootVars, treeVars, searchVars, fileVars,
                   previewVars, downloadError, acts, lost>>

FilesInit ==
    /\ shown = FALSE /\ root = FALSE /\ rootLoading = FALSE
    /\ rootError = FALSE /\ rootAsked = FALSE
    /\ directories = [d \in Folders |-> None] /\ expanded = {}
    /\ loadingDirectories = {} /\ directoryErrors = {} /\ asked = {}
    /\ refreshVersion = 0
    /\ query = None /\ searchAsked = None /\ searchResult = None
    /\ searching = FALSE /\ searchError = FALSE
    /\ selectedPath = None /\ selectedFile = None /\ fileAsked = None
    /\ fileLoading = FALSE /\ fileError = FALSE
    /\ previewAsked = None /\ imagePreview = None
    /\ imagePreviewLoading = FALSE /\ imagePreviewError = FALSE
    /\ urls = {} /\ download = None /\ downloadError = FALSE
    /\ acts = 0 /\ lost = 0

FilesNext ==
    \/ ToggleTab \/ Refresh \/ Download
    \/ \E q \in Queries \cup {None} : Type(q)
    \/ \E p \in Files : Open(p)
    \/ \E d \in Folders : ClickFolder(d) \/ RetryFolder(d)
    \/ SearchDelayOver \/ RevokeTimer
    \/ \E ok \in BOOLEAN :
           \/ RootAnswered(ok) \/ SearchAnswered(ok) \/ FileAnswered(ok)
           \/ PreviewAnswered(ok) \/ DownloadAnswered(ok)
           \/ \E r \in asked : FolderAnswered(r, ok)

-----------------------------------------------------------------------------
(* What is rendered. *)

\* renderWorkspaceFileViewer
ViewerPart ==
    IF fileLoading THEN "loading"
    ELSE IF fileError THEN "unavailable"
    ELSE IF selectedFile = None THEN "prompt"
    ELSE IF selectedFile \notin Images THEN "content"
    ELSE IF imagePreviewLoading THEN "preview loading"
    ELSE IF imagePreviewError \/ imagePreview = None
            \/ imagePreview.path # selectedFile THEN "no preview"
    ELSE "preview"

\* renderWorkspaceFileNavigator
NavigatorPart ==
    IF query # None
    THEN IF searching THEN "searching" ELSE IF searchError THEN "failed"
         ELSE "matches"
    ELSE IF root THEN "tree"
    ELSE IF rootLoading THEN "skeleton"
    ELSE IF rootError THEN "unavailable" ELSE "blank"

-----------------------------------------------------------------------------
(* Properties. *)

FilesTypeOK ==
    /\ {shown, root, rootLoading, rootError, rootAsked, searching, searchError,
        fileLoading, fileError, imagePreviewLoading, imagePreviewError,
        downloadError} \subseteq BOOLEAN
    /\ directories \in [Folders -> Nat \cup {None}]
    /\ expanded \cup loadingDirectories \cup directoryErrors \subseteq Folders
    /\ asked \subseteq Listing /\ searchAsked \in SearchRequest \cup {None}
    /\ {imagePreview, download} \subseteq ObjectURL \cup {None}
    /\ {query, searchResult} \subseteq Queries \cup {None}
    /\ {selectedPath, selectedFile, fileAsked, previewAsked}
           \subseteq Files \cup {None}
    /\ urls \subseteq Nat \ {0} /\ refreshVersion \in Nat

\* What is displayed is what was asked for last: no folder listed before the
\* last refresh, no file but the selected one, no matches of another text once
\* the search is over, whatever order the answers come in.
ShowsLatest ==
    /\ \A d \in Folders : directories[d] \in {None, refreshVersion}
    /\ selectedFile \in {None, selectedPath}
    /\ shown /\ NavigatorPart = "matches" => searchResult = query
    /\ ViewerPart = "preview" => imagePreview.path = selectedPath

\* An expanded folder is never left without its entries, a request that will
\* bring them, or the offer to retry: a refresh that drops a request drops the
\* folder's loading mark with it.
NoStuckFolder ==
    /\ \A d \in expanded : Listed(d) => Feedback(d) # "nothing"
    /\ \A d \in loadingDirectories :
           [dir |-> d, at |-> refreshVersion] \in asked
    /\ shown => NavigatorPart # "blank" /\ (searching <=> searchAsked # None)
                /\ (fileLoading <=> fileAsked # None)

\* Object URLs keep their content in memory until they are revoked: those alive
\* are exactly the preview's and a download's, and the preview's is alive.
URLsRevoked ==
    urls = Revoked \cup IF download = None THEN {} ELSE {download.url} \ {0}

FilesSpec == FilesInit /\ [][FilesNext]_filesVars

=============================================================================
