---------------------------- MODULE BackendServices ----------------------------
(* What the web backend does for a deployment before there is one: it builds   *)
(* the image of the model, resolves the recipe of the model to settings, says  *)
(* what GPUs the cluster has, and which models the catalogue offers for them.  *)
EXTENDS Naturals, Sequences, FiniteSets

CONSTANTS
  Builds, BuildModels, ImageNames, TagOf, Premade, PremadeImage, Ours, Listings, MaxPolls, MaxLosses, \* Build
  KnownRecipes, Requests, Numbers, Undefined,                                     \* Resolver
  Nodes, Pools, Labels, NodeGpus, Pods, Asks, Configs, Scalers, Events, MaxMoves, \* Gpus
  Models, Hub, Clusters, Inquiries, Limit, Extra, Offsets                         \* Fitting

VARIABLES
  namespace, registry, service, images, builder, listed, losses, build,
  recipe, request, at, source, result,
  alloc, pods, read, moves,
  told

buildVars  == <<namespace, registry, service, images, builder, listed, losses, build>>
recipeVars == <<recipe, request, at, source, result>>
gpuVars    == <<alloc, pods, read, moves>>
fitVars    == <<told>>

Build == INSTANCE ImageBuild WITH Models <- BuildModels, NameOf <- ImageNames, ImageOf <- PremadeImage

Resolver == INSTANCE RecipeResolution WITH Recipes <- KnownRecipes, Unset <- Undefined

Gpus == INSTANCE GpuCapacity WITH GpuCounts <- NodeGpus

Fitting == INSTANCE ModelFit WITH Asked <- Inquiries, Unset <- Undefined

(* What they assume of their constants.                                        *)
ASSUME ServicesAssumption ==
  Build!BuildAssumption /\ Resolver!RecipeAssumption /\ Gpus!CapacityAssumption /\ Fitting!ModelFitAssumption
=============================================================================
