----------------------------- MODULE RecipeFiles -----------------------------
(***************************************************************************)
(* The files of a configuration root and how they are loaded:              *)
(* load_global_config (config.cpp), load_recipe_file (recipe.cpp) and      *)
(* RecipeCatalog::load with load_asset_bytes (recipe_catalog.cpp).         *)
(*                                                                         *)
(* The text of a file is left out.  A document is the set of its defects,  *)
(* named after the check that finds them; a recipe also is its id, the     *)
(* assets it declares and the one its algorithm decodes.  Someone may edit *)
(* the files between any two reads of the loader.                          *)
(***************************************************************************)
EXTENDS Naturals, FiniteSetsExt, CameraIdentity

CONSTANTS
  Files,          \* names of recipe files, in their order
  Assets,         \* names of asset files, in the order of their keys
  Ids,            \* recipe ids
  RecipeDefects,  \* defects a recipe file may have
  ConfigDefects,  \* defects cvforwin.json may have
  Sizes,          \* sizes of asset files
  MaxAssetBytes,  \* k_max_asset_bytes
  MaxTotalBytes,  \* k_max_total_asset_bytes
  MaxEdits        \* bound on the edits

(* What load_json_document tells, and what the checks that follow it test. *)
DocumentChecks == {"unreadable", "syntax", "duplicate key"}
RecipeRootChecks == {"root", "unknown key", "missing key", "schema_version",
                     "recipe_id", "algorithm", "parameters"}
RecipePartChecks == {"capture", "artifacts", "assets"}
ConfigRootChecks == {"root", "unknown key", "missing key", "schema_version"}
ConfigPartChecks == {"base_capture", "logging", "retention"}

ASSUME FilesAssumption ==
  /\ Files \subseteq Nat \ {0} /\ Assets \subseteq Nat \ {0} /\ Sizes \subseteq Nat
  /\ IsFiniteSet(Assets)   \* a recipe names at most k_max_asset_count of them
  /\ Sizes \ {0} # {}
  /\ RecipeDefects \subseteq DocumentChecks \cup RecipeRootChecks \cup RecipePartChecks
  /\ ConfigDefects \subseteq DocumentChecks \cup ConfigRootChecks \cup ConfigPartChecks
  /\ MaxAssetBytes \in Nat /\ MaxTotalBytes \in Nat /\ MaxEdits \in Nat

VARIABLES
  disk,    \* the files
  edits,   \* edits so far
  loader,  \* the local variables of RecipeCatalog::load
  quiet    \* no edit since the last load began

filesVars == <<disk, edits, loader, quiet>>

-------------------------------------------------------------------------------
(* What the files may hold. *)

Missing == [present |-> FALSE]

Defective(d) == {x \in SUBSET d : Cardinality(x) <= 1}

(* decodes is the asset the prepare step decodes, 0 for example.threshold. *)
RecipeFiles == {Missing} \cup
  [present : {TRUE}, defects : Defective(RecipeDefects), id : Ids,
   assets : SUBSET Assets, decodes : Assets \cup {0}]

(* A regular file beneath the assets root, or not; a template, or not. *)
AssetFiles == {Missing} \cup
  {file \in [present : {TRUE}, regular : BOOLEAN, bytes : Sizes, template : BOOLEAN] :
     file.template => file.bytes > 0}

NoLoad == [step |-> "idle", todo |-> {}, loaded |-> {}, file |-> 0,
           recipe |-> Missing, left |-> {}, measured |-> 0, total |-> 0,
           bundle |-> {}, answer |-> "none"]

Known(loaded, id) == \E entry \in loaded : entry.id = id

(* prepare of the two algorithms: example.threshold takes no assets. *)
Prepares(recipe, bundle) ==
  IF recipe.decodes = 0 THEN recipe.assets = {}
  ELSE \E asset \in bundle : asset.name = recipe.decodes /\ asset.file.template

Readable(file, total) ==
  /\ file.present /\ file.regular
  /\ file.bytes <= MaxAssetBytes
  /\ total + file.bytes <= MaxTotalBytes

AsMeasured(file, bytes) == file.present /\ file.bytes = bytes

-------------------------------------------------------------------------------
SoundRecipe(id) == [present |-> TRUE, defects |-> {}, id |-> id,
                    assets |-> Assets, decodes |-> Min(Assets)]
SoundAsset == [present |-> TRUE, regular |-> TRUE, bytes |-> Min(Sizes \ {0}),
               template |-> TRUE]

SoundSelector == [EmptySelector EXCEPT !.device_path = "left"]

(* A root someone has set up: every file has an id of its own, or a defect. *)
FilesInit ==
  /\ \E ids \in [Files -> Ids], bad \in SUBSET Files, d \in RecipeDefects :
       /\ \A f, g \in Files : f # g => ids[f] # ids[g]
       /\ disk = [directory |-> TRUE,
                  config |-> [defects |-> {}, selector |-> SoundSelector],
                  asset |-> [a \in Assets |-> SoundAsset],
                  recipe |-> [f \in Files |->
                    IF f \in bad THEN [SoundRecipe(ids[f]) EXCEPT !.defects = {d}]
                    ELSE SoundRecipe(ids[f])]]
  /\ edits = 0 /\ loader = NoLoad /\ quiet = TRUE

Edited ==
  /\ edits < MaxEdits
  /\ edits' = edits + 1 /\ quiet' = FALSE
  /\ UNCHANGED loader

EditRecipe(f) ==
  /\ Edited
  /\ \E file \in RecipeFiles : disk' = [disk EXCEPT !.recipe[f] = file]

EditAsset(a) ==
  /\ Edited
  /\ \E file \in AssetFiles : disk' = [disk EXCEPT !.asset[a] = file]

EditConfig ==
  /\ Edited
  /\ \E config \in [defects : Defective(ConfigDefects), selector : Selectors] :
       disk' = [disk EXCEPT !.config = config]

(* The directory of the recipes is deleted or renamed. *)
EditDirectory ==
  /\ Edited
  /\ disk' = [disk EXCEPT !.directory = FALSE, !.recipe = [f \in Files |-> Missing]]

Edit == \/ \E f \in Files : EditRecipe(f)
        \/ \E a \in Assets : EditAsset(a)
        \/ EditConfig \/ EditDirectory

-------------------------------------------------------------------------------
(* load_global_config *)
ConfigLoads == disk.config.defects = {} /\ SelectorAccepted(disk.config.selector)

Stop(answer) == loader' = [loader EXCEPT !.step = "stopped", !.answer = answer]

(* The files of the directory are listed, then taken by name. *)
ListFiles ==
  /\ loader' = IF disk.directory
               THEN [NoLoad EXCEPT !.step = "file",
                                   !.todo = {f \in Files : disk.recipe[f].present}]
               ELSE [NoLoad EXCEPT !.step = "stopped", !.answer = "refused"]
  /\ quiet' = TRUE
  /\ UNCHANGED <<disk, edits>>

(* Mutant: a file that cannot be read is passed over. *)
ReadFileSkipping ==
  LET f == Min(loader.todo)
      recipe == disk.recipe[f]
  IN /\ loader.step = "file" /\ loader.todo # {}
     /\ \/ ~(recipe.present /\ recipe.defects = {})
           /\ loader' = [loader EXCEPT !.todo = @ \ {f}]
        \/ /\ recipe.present /\ recipe.defects = {}
           /\ \/ Known(loader.loaded, recipe.id) /\ Stop("refused")
              \/ /\ ~Known(loader.loaded, recipe.id)
                 /\ loader' = [loader EXCEPT !.step = "asset", !.file = f,
                                 !.recipe = recipe, !.left = recipe.assets,
                                 !.total = 0, !.bundle = {}]
     /\ UNCHANGED <<disk, edits, quiet>>

(* load_recipe_file, the test for a duplicate id, and the next asset. *)
ReadFile ==
  LET f == Min(loader.todo)
      recipe == disk.recipe[f]
  IN /\ loader.step = "file" /\ loader.todo # {}
     /\ \/ ~(recipe.present /\ recipe.defects = {}) /\ Stop("refused")
        \/ /\ recipe.present /\ recipe.defects = {}
           /\ \/ Known(loader.loaded, recipe.id) /\ Stop("refused")
              \/ /\ ~Known(loader.loaded, recipe.id)
                 /\ loader' = [loader EXCEPT !.step = "asset", !.file = f,
                                 !.recipe = recipe, !.left = recipe.assets,
                                 !.total = 0, !.bundle = {}]
     /\ UNCHANGED <<disk, edits, quiet>>

(* load_asset_bytes up to the measured size. *)
MeasureAsset ==
  LET file == disk.asset[Min(loader.left)]
  IN /\ loader.step = "asset" /\ loader.left # {}
     /\ \/ ~Readable(file, loader.total) /\ Stop("refused")
        \/ /\ Readable(file, loader.total)
           /\ loader' = [loader EXCEPT !.step = "bytes", !.measured = file.bytes]
     /\ UNCHANGED <<disk, edits, quiet>>

(* ... and the bytes, which must be as many. *)
ReadAsset ==
  LET a == Min(loader.left)
      file == disk.asset[a]
  IN /\ loader.step = "bytes"
     /\ \/ ~AsMeasured(file, loader.measured) /\ Stop("refused")
        \/ /\ AsMeasured(file, loader.measured)
           /\ loader' = [loader EXCEPT !.step = "asset", !.left = @ \ {a},
                           !.total = @ + file.bytes,
                           !.bundle = @ \cup {[name |-> a, file |-> file]}]
     /\ UNCHANGED <<disk, edits, quiet>>

PrepareRecipe ==
  /\ loader.step = "asset" /\ loader.left = {}
  /\ \/ ~Prepares(loader.recipe, loader.bundle) /\ Stop("refused")
     \/ /\ Prepares(loader.recipe, loader.bundle)
        /\ loader' = [loader EXCEPT !.step = "file", !.todo = @ \ {loader.file},
                        !.loaded = @ \cup {[id |-> loader.recipe.id,
                                            recipe |-> loader.recipe,
                                            bundle |-> loader.bundle]}]
  /\ UNCHANGED <<disk, edits, quiet>>

CompleteLoad ==
  /\ loader.step = "file" /\ loader.todo = {}
  /\ Stop("sound")
  /\ UNCHANGED <<disk, edits, quiet>>

LoadStep == ReadFile \/ MeasureAsset \/ ReadAsset \/ PrepareRecipe \/ CompleteLoad

-------------------------------------------------------------------------------
(* What a set of files means, without the loader. *)

Bundle(recipe) == {[name |-> a, file |-> disk.asset[a]] : a \in recipe.assets}

AssetsSound(recipe) ==
  /\ \A a \in recipe.assets :
       /\ disk.asset[a].present /\ disk.asset[a].regular
       /\ disk.asset[a].bytes <= MaxAssetBytes
  /\ MapThenSumSet(LAMBDA a : disk.asset[a].bytes, recipe.assets) <= MaxTotalBytes

RecipeSound(f) ==
  LET recipe == disk.recipe[f]
  IN  /\ recipe.defects = {}
      /\ AssetsSound(recipe)
      /\ Prepares(recipe, Bundle(recipe))
      /\ \A g \in Files : g # f /\ disk.recipe[g].present => disk.recipe[g].id # recipe.id

DirectorySound == disk.directory /\ \A f \in Files : disk.recipe[f].present => RecipeSound(f)

RecipesOfDisk ==
  {[id |-> disk.recipe[f].id, recipe |-> disk.recipe[f],
    bundle |-> Bundle(disk.recipe[f])] : f \in {g \in Files : disk.recipe[g].present}}
===============================================================================
